---- MODULE Spec2Model ----
(***************************************************************************)
(* A model of the AI routing gateway of ripj3/CHATCHONKBETA:                *)
(*   - the Cost Gate        (services/modelswapper_service.py)              *)
(*   - the Response Cache   (services/cache_service.py)                     *)
(*   - the Registry/Router  (automodel/model_registry.py, task_router.py)   *)
(*   - the Facade           (automodel/automodel.py)                        *)
(*   - the Drivers          (automodel/providers/*.py)                      *)
(*   - the Rate Limiter     (core/rate_limiter.py)                          *)
(* Each subsystem has its own specification (SpecGate, SpecSelect,         *)
(* SpecCache, SpecRouter, SpecRouterCancel, SpecRouterSort, SpecProcess,    *)
(* SpecWithModels, SpecSessions, SpecLedger, SpecMetrics, SpecDriver,       *)
(* SpecPrepare, SpecFingerprint, SpecInitialize, SpecLimiter) over the      *)
(* variables it uses.                                                       *)
(*                                                                         *)
(* Money is counted in cents (0.01 currency unit) in the Cost Gate and in   *)
(* mills (0.001) for per-1k-token unit costs.  Time is counted in minutes.  *)
(***************************************************************************)
EXTENDS Integers, Sequences, FiniteSets, TLC

None == "None"

(***************************************************************************)
(*                              COST GATE                                   *)
(***************************************************************************)

VARIABLES
    admitted_cost,  \* per user: cost of the requests the gate admitted so far in
                    \* the current hour (history of the gate's own decisions)
    usage_logs,     \* per user: rows of the usage_logs table (record_model_usage)
    gate_last,      \* the last call of _check_user_spending_limits and its outcome
    select_last     \* the last call of select_best_model and its outcome

gateVars == <<admitted_cost, usage_logs, gate_last, select_last>>

VARIABLES
    now,            \* the clock (datetime.utcnow / time.time), in minutes
    cache_local,    \* CacheService._cache: key -> entry
    remote_kv,      \* the Cloudflare KV namespace: key -> entry
    use_cloudflare, \* CacheService._use_cloudflare
    last_write,     \* per key: time and ttl of the latest CacheService.set
    get_last        \* the last CacheService.get: key, time, value returned

cacheVars == <<cache_local, remote_kv, use_cloudflare, last_write, get_last>>


VARIABLES
    provider_health,      \* ModelRegistry._provider_health
    last_health_check,    \* ModelRegistry._last_health_check
    performance_metrics,  \* ModelRegistry._performance_metrics
    load_balancing,       \* TaskRouter._load_balancing
    route,                \* per caller: the route_task / get_model_recommendation call in progress
    route_calls           \* number of router calls started

routerVars == <<provider_health, last_health_check, performance_metrics,
                load_balancing, route, route_calls>>

VARIABLES
    proc,           \* per caller: the AutoModel.process call in progress
    ledger,         \* AutoModel._performance_metrics, the performance ledger
    last_cached,    \* per cache key: the last process call that cached a response
    proc_calls,     \* number of process calls started
    active_sessions \* AutoModel._active_sessions: session id -> context

processVars == <<proc, ledger, last_cached, proc_calls, active_sessions>>

VARIABLES
    session_log     \* the session ids create_session returned, those
                    \* delete_session was called with, and per id the callers
                    \* whose process call was in flight at that moment

VARIABLES
    with_models     \* the AutoModel.process_with_models call in progress

VARIABLES
    metrics_entry,  \* ModelRegistry._performance_metrics[m] of one registered model m
    metrics_calls   \* the update_model_metrics calls made for m: how many, how many
                    \* reported success, the sum of their response times, the last call

metricsVars == <<metrics_entry, metrics_calls>>

VARIABLES
    arrived         \* every record _track_performance was called with, in arrival order

VARIABLES
    driver,         \* one provider driver: _is_initialized, _client, _models, and
                    \* the last process call made on it
    prepared,       \* the last AnthropicProvider._prepare_messages call: its
                    \* inputs before and after the call and the list it returned
    init_calls,     \* AutoModel.initialize: the facade's fields and the calls in flight
    limiter,        \* rate_limiter: the store behind the cache keys and the
                    \* history of admitted requests
    fingerprints    \* the last pair of requests whose cache keys were built

lateVars == <<driver, prepared, init_calls, limiter, fingerprints>>

\* what the actions of one subsystem leave unchanged in the others
outsideGate == <<now, cacheVars, routerVars, processVars, metricsVars, arrived, session_log, with_models, lateVars>>
outsideCache == <<gateVars, routerVars, processVars, metricsVars, arrived, session_log, with_models, lateVars>>
outsideRouter == <<gateVars, cacheVars, processVars, metricsVars, arrived, session_log, with_models, lateVars>>
outsideProcess == <<gateVars, last_write, get_last, performance_metrics,
                    load_balancing, route, route_calls, metricsVars, arrived,
                    session_log, with_models, lateVars>>
outsideMetrics == <<gateVars, now, cacheVars, routerVars, processVars, arrived, session_log, with_models, lateVars>>
outsideLedger == <<gateVars, now, cacheVars, routerVars, proc, last_cached,
                   proc_calls, active_sessions, metricsVars, session_log, with_models, lateVars>>
outsideSessions == <<gateVars, now, cacheVars, routerVars, proc, ledger, last_cached,
                     proc_calls, metricsVars, arrived, with_models, lateVars>>

\* ---- bounds of the gate model
MaxGateCalls == 4
MaxUsageRows == 1

Users == {"u1", "u2"}

Tiers == {"free", "lilbean", "clawback", "bigchonk", "meowtrix"}

\* request.user_tier of each modelled user
user_tier == [u \in Users |-> IF u = "u1" THEN "free" ELSE "meowtrix"]

\* UserSpendingLimits.get_tier_defaults, money in cents
get_tier_defaults ==
    [t \in Tiers |->
        CASE t = "free" ->
               [daily_cost_limit |-> 100, daily_request_limit |-> 50,
                daily_token_limit |-> 10000, hourly_cost_limit |-> 25,
                hourly_request_limit |-> 15, max_cost_per_request |-> 10,
                max_tokens_per_request |-> 2000]
          [] t = "lilbean" ->
               [daily_cost_limit |-> 500, daily_request_limit |-> 200,
                daily_token_limit |-> 50000, hourly_cost_limit |-> 100,
                hourly_request_limit |-> 50, max_cost_per_request |-> 50,
                max_tokens_per_request |-> 4000]
          [] t = "clawback" ->
               [daily_cost_limit |-> 2500, daily_request_limit |-> 1000,
                daily_token_limit |-> 250000, hourly_cost_limit |-> 500,
                hourly_request_limit |-> 200, max_cost_per_request |-> 200,
                max_tokens_per_request |-> 8000]
          [] t = "bigchonk" ->
               [daily_cost_limit |-> 10000, daily_request_limit |-> 5000,
                daily_token_limit |-> 1000000, hourly_cost_limit |-> 2000,
                hourly_request_limit |-> 500, max_cost_per_request |-> 1000,
                max_tokens_per_request |-> 16000]
          [] OTHER ->
               [daily_cost_limit |-> 50000, daily_request_limit |-> 25000,
                daily_token_limit |-> 5000000, hourly_cost_limit |-> 10000,
                hourly_request_limit |-> 2000, max_cost_per_request |-> 5000,
                max_tokens_per_request |-> 32000]]

\* ModelSwapperService.__init__: emergency circuit breaker, in cents
emergency_cost_threshold == 5000

\* ModelSwapperService.__init__: emergency stop at 10k requests per hour
emergency_requests_per_hour == 10000

\* requests the service has already seen in the current hour when the model
\* starts
GateHourStarts == {0, emergency_requests_per_hour - 1}

\* estimated costs (cents) and token counts a caller may present
CostValues == {0, 5, 6, 10, 11, 5000, 5001}
TokenValues == {2000, 100000}

\* ModelSwapperService._check_user_spending_limits: "ok" when the method
\* returns, "CostLimitException" when it raises.  The current spending is the
\* constant 0.00 of the method body, not a stored counter.
check_user_spending_limits(tier, estimated_cost) ==
    LET limits == get_tier_defaults[tier]
        current_daily_cost == 0
        current_hourly_cost == 0
    IN  IF current_daily_cost + estimated_cost > limits.daily_cost_limit
            THEN "CostLimitException"
        ELSE IF current_hourly_cost + estimated_cost > limits.hourly_cost_limit
            THEN "CostLimitException"
        ELSE IF estimated_cost > limits.max_cost_per_request
            THEN "CostLimitException"
        ELSE IF estimated_cost > emergency_cost_threshold
            THEN "CostLimitException"
        ELSE "ok"

\* One call of the gate for a request of user u with `tokens` requested tokens
\* and estimated cost `cost`.  The method receives only the user, the tier and
\* the cost; it writes nothing.  admitted_cost records what was admitted.
GateCallCountingFirst(u, tokens, cost) ==
    /\ gate_last.n < MaxGateCalls
    /\ LET outcome == check_user_spending_limits(user_tier[u], cost)
       IN  /\ gate_last' = [n |-> gate_last.n + 1, user |-> u, tokens |-> tokens,
                            cost |-> cost, prior |-> admitted_cost[u],
                            outcome |-> outcome,
                            hour_requests |-> gate_last.hour_requests + 1]
           /\ admitted_cost' = [admitted_cost EXCEPT ![u] = @ + cost]
    /\ UNCHANGED <<usage_logs, select_last>>
    /\ UNCHANGED outsideGate

GateCall(u, tokens, cost) ==
    /\ gate_last.n < MaxGateCalls
    /\ LET outcome == check_user_spending_limits(user_tier[u], cost)
       IN  /\ gate_last' = [n |-> gate_last.n + 1, user |-> u, tokens |-> tokens,
                            cost |-> cost, prior |-> admitted_cost[u],
                            outcome |-> outcome,
                            hour_requests |-> gate_last.hour_requests + 1]
           /\ admitted_cost' = IF outcome = "ok"
                                 THEN [admitted_cost EXCEPT ![u] = @ + cost]
                                 ELSE admitted_cost
    /\ UNCHANGED <<usage_logs, select_last>>
    /\ UNCHANGED outsideGate

\* ModelSwapperService.record_model_usage: one row into usage_logs; a database
\* error is logged and swallowed.
record_model_usage(u, db_ok) ==
    /\ usage_logs[u] < MaxUsageRows
    /\ usage_logs' = IF db_ok THEN [usage_logs EXCEPT ![u] = @ + 1] ELSE usage_logs
    /\ UNCHANGED <<admitted_cost, gate_last, select_last>>
    /\ UNCHANGED outsideGate

\* rows of the MSWAP models table: unit costs per 1k tokens in mills (0.001),
\* reliability in thousandths, avg_latency in milliseconds
MSModels ==
    { [id |-> "ms_local",   cost_prompt |-> 0,    cost_completion |-> 0,
       context_length |-> 4096, reliability |-> 1000, avg_latency |-> 0],
      [id |-> "ms_small",   cost_prompt |-> 1,    cost_completion |-> 1,
       context_length |-> 16000, reliability |-> 990, avg_latency |-> 1500],
      [id |-> "ms_mid",     cost_prompt |-> 5,    cost_completion |-> 20,
       context_length |-> 128000, reliability |-> 950, avg_latency |-> 3000],
      [id |-> "ms_premium", cost_prompt |-> 1000, cost_completion |-> 1001,
       context_length |-> 200000, reliability |-> 990, avg_latency |-> 12000] }

\* ModelSwapperService._filter_models_by_tier: tier cost ceilings in mills
tier_cost_limits ==
    [t \in Tiers |->
        CASE t = "free" -> 1 [] t = "lilbean" -> 5 [] t = "clawback" -> 20
          [] t = "bigchonk" -> 100 [] OTHER -> 1000]

Max2(a, b) == IF a >= b THEN a ELSE b

\* the tier filter with a strict comparison: a model at the ceiling is left out
filter_models_by_tier_strict(models, tier) ==
    { m \in models :
        Max2(m.cost_prompt, m.cost_completion) < tier_cost_limits[tier] }

filter_models_by_tier(models, tier) ==
    { m \in models :
        Max2(m.cost_prompt, m.cost_completion) <= tier_cost_limits[tier] }

\* ModelSwapperService._calculate_cost.  prompt_tokens / 1000 is a float and
\* Model.cost_per_1k_prompt_tokens is a Decimal (mswap_models.Model); Python
\* defines no float * Decimal, so the multiplication raises TypeError for
\* every model and every token count.
calculate_cost(model, estimated_tokens) == [raised |-> "TypeError", total_cost |-> 0]

\* ModelSwapperService._filter_models_by_requirements for a request that names
\* min_context_length and max_cost (0 stands for None: both are tested for
\* truth).  The result is the filtered set, or the exception class raised.
filter_models_by_requirements(models, req) ==
    IF req.max_cost # 0 /\ \E m \in models :
            ~(req.min_context_length # 0 /\ m.context_length < req.min_context_length)
          /\ calculate_cost(m, req.estimated_tokens).raised # None
        THEN [raised |-> "TypeError", models |-> {}]
        ELSE [raised |-> None,
              models |-> { m \in models :
                  /\ ~(req.min_context_length # 0
                        /\ m.context_length < req.min_context_length)
                  /\ (req.max_cost # 0 =>
                        calculate_cost(m, req.estimated_tokens).total_cost
                            <= req.max_cost) }]

\* the score _score_models_by_criteria gives one model, in thousandths of a
\* point, for an estimated cost in mills: reliability (0-40 points), latency
\* (0-30), cost (0-30), then the priority adjustment
composite_score(model, estimated_cost, priority) ==
    LET reliability_score == model.reliability * 40
        latency_score == Max2(0, 30000 - 3 * model.avg_latency)
        cost_score == Max2(0, 30000 - 30 * estimated_cost)
        score == reliability_score + latency_score + cost_score
    IN  IF priority = "high"
            THEN (IF model.avg_latency < 2000 THEN score + 10000 ELSE score)
        ELSE IF priority = "low" THEN score + cost_score \div 2
        ELSE score

\* ModelSwapperService._score_models_by_criteria evaluates _calculate_cost for
\* each model of a non-empty list; scores holds the score of each model and
\* best is the first model of the list sorted by score, highest first
score_models_by_criteria(models, req) ==
    IF \E m \in models : calculate_cost(m, req.estimated_tokens).raised # None
        THEN [raised |-> "TypeError", best |-> None, scores |-> {}]
        ELSE LET scores == { [id |-> m.id,
                              score |-> composite_score(m,
                                  calculate_cost(m, req.estimated_tokens).total_cost,
                                  req.priority)] : m \in models }
             IN  [raised |-> None,
                  best |-> CHOOSE m \in models : \A s \in scores :
                      s.score <= composite_score(m,
                          calculate_cost(m, req.estimated_tokens).total_cost,
                          req.priority),
                  scores |-> scores]

\* the except clauses of select_best_model: CostLimitException and
\* SecurityException are re-raised, anything else becomes ValueError
select_best_model_except(e) ==
    IF e \in {"CostLimitException", "SecurityException"} THEN e ELSE "ValueError"

\* ModelSwapperService.select_best_model, steps 1 to 8: the exception class the
\* call ends with, or "response"
select_best_model_result(tier, req, db_ok) ==
    IF ~db_ok THEN select_best_model_except("DatabaseError")
    ELSE LET available == filter_models_by_tier(MSModels, tier) IN
    IF available = {} THEN select_best_model_except("ValueError")
    ELSE LET filtered == filter_models_by_requirements(available, req) IN
    IF filtered.raised # None THEN select_best_model_except(filtered.raised)
    ELSE IF filtered.models = {} THEN select_best_model_except("ValueError")
    ELSE LET scored == score_models_by_criteria(filtered.models, req) IN
    IF scored.raised # None THEN select_best_model_except(scored.raised)
    ELSE LET estimate == calculate_cost(scored.best, req.estimated_tokens) IN
    IF estimate.raised # None THEN select_best_model_except(estimate.raised)
    ELSE LET gate == check_user_spending_limits(tier, estimate.total_cost) IN
    IF gate # "ok" THEN select_best_model_except(gate)
    \* ModelSelectionResponse(model_id=..., model_name=...) lacks the required
    \* fields selected_model_id and selected_model_name
    ELSE select_best_model_except("ValidationError")

\* select_best_model, step 6: the caller's own keys are used only for the
\* three upper tiers
using_user_keys(tier, req) ==
    req.use_user_keys /\ tier \in {"clawback", "bigchonk", "meowtrix"}

\* the security_level of the ModelSelectionResponse, None when the call
\* raised instead of returning one
select_best_model_security(tier, req, db_ok) ==
    IF select_best_model_result(tier, req, db_ok) # "response" THEN None
    ELSE IF using_user_keys(tier, req) THEN "user" ELSE "system"

\* select_best_model, step 3: whether _score_models_by_criteria was reached,
\* the exception it raised and the scores it computed
select_best_model_scoring(tier, req, db_ok) ==
    LET available == filter_models_by_tier(MSModels, tier)
        filtered == filter_models_by_requirements(available, req)
        reached == db_ok /\ available # {} /\ filtered.raised = None
                        /\ filtered.models # {}
        scored == score_models_by_criteria(filtered.models, req)
    IN  [reached |-> reached,
         raised |-> IF reached THEN scored.raised ELSE None,
         scores |-> IF reached THEN scored.scores ELSE {}]

\* requests with the caller's own keys or with a priority other than the
\* default carry no other requirement
SelectRequests ==
    [estimated_tokens : TokenValues, max_cost : {0, 10},
     min_context_length : {0, 100000}, use_user_keys : {FALSE},
     priority : {"medium"}]
    \cup [estimated_tokens : {2000}, max_cost : {0},
          min_context_length : {0}, use_user_keys : {TRUE}, priority : {"medium"}]
    \cup [estimated_tokens : {2000}, max_cost : {0},
          min_context_length : {0}, use_user_keys : {FALSE},
          priority : {"low", "high"}]

\* available is the list step 1 obtained (_get_models_for_task), by model id
select_best_model(u, req, db_ok) ==
    /\ select_last' = [user |-> u, req |-> req,
                       outcome |-> select_best_model_result(user_tier[u], req, db_ok),
                       queried |-> db_ok,
                       available |-> IF db_ok
                            THEN {m.id : m \in filter_models_by_tier(MSModels, user_tier[u])}
                            ELSE {},
                       security_level |->
                            select_best_model_security(user_tier[u], req, db_ok),
                       scoring |-> select_best_model_scoring(user_tier[u], req, db_ok)]
    /\ UNCHANGED <<admitted_cost, usage_logs, gate_last>>
    /\ UNCHANGED outsideGate

\* the service after __init__, with n0 requests seen in the current hour
GateInitAt(n0) ==
    /\ admitted_cost = [u \in Users |-> 0]
    /\ usage_logs = [u \in Users |-> 0]
    /\ gate_last = [n |-> 0, user |-> None, tokens |-> 0, cost |-> 0, prior |-> 0,
                    outcome |-> None, hour_requests |-> n0]
    /\ select_last = [user |-> None, req |-> None, outcome |-> None, queried |-> FALSE,
                      available |-> {}, security_level |-> None,
                      scoring |-> [reached |-> FALSE, raised |-> None, scores |-> {}]]

GateInit == GateInitAt(0)

\* the spending gate and the usage rows; select_best_model never gets as far
\* as its call of the gate (step 5), so selections are in NextSelect
NextGate ==
    \/ \E u \in Users, tokens \in TokenValues, cost \in CostValues :
            GateCall(u, tokens, cost)
    \/ \E u \in Users, db_ok \in BOOLEAN : record_model_usage(u, db_ok)

\* the selection service on its own: selections and usage rows
NextSelect ==
    \/ \E u \in Users, db_ok \in BOOLEAN : record_model_usage(u, db_ok)
    \/ \E u \in Users, req \in SelectRequests, db_ok \in BOOLEAN :
            select_best_model(u, req, db_ok)


(***************************************************************************)
(*                            RESPONSE CACHE                                *)
(***************************************************************************)

\* ---- bounds of the cache model
MaxTime == 3
MaxTTL == 2

Keys == {"k1"}
CacheValues == {"v1", "v2"}
TTLValues == 0..MaxTTL

Absent == [present |-> FALSE, value |-> None, expires_at |-> 0, expiring |-> FALSE]

\* what the KV service answers to GET /values/{key}: an entry stored with
\* expiration_ttl is gone once that time has passed
remote_live(e, t) == e.present /\ (~e.expiring \/ t < e.expires_at)

\* CacheService.get at time t on cache state st = [local, remote, cf].  r is
\* what happens to the HTTP GET when the remote tier is in use: "reply" (status
\* 200 or 404) or "error" (another status, or an exception).
cache_get(st, k, t, r) ==
    IF st.cf /\ r = "reply"
        THEN [hit |-> remote_live(st.remote[k], t),
              value |-> IF remote_live(st.remote[k], t)
                            THEN st.remote[k].value ELSE None,
              st |-> st]
    ELSE LET entry == st.local[k] IN
         IF ~entry.present
            THEN [hit |-> FALSE, value |-> None, st |-> [st EXCEPT !.cf = FALSE]]
         ELSE IF entry.expires_at <= t
            THEN [hit |-> FALSE, value |-> None,
                  st |-> [st EXCEPT !.cf = FALSE, !.local[k] = Absent]]
         ELSE [hit |-> TRUE, value |-> entry.value, st |-> [st EXCEPT !.cf = FALSE]]

\* CacheService.set at time t.  r is what happens to the HTTP PUT when the
\* remote tier is in use: "ok" (status 200/201), "error" (rejected) or
\* "error_stored" (stored by the service, but the reply was lost).  The PUT
\* carries expiration_ttl only when ttl > 0.
cache_set(st, k, v, ttl, t, r) ==
    LET put == [present |-> TRUE, value |-> v, expires_at |-> t + ttl,
                expiring |-> ttl > 0]
    IN  IF st.cf /\ r = "ok"
            THEN [st EXCEPT !.remote[k] = put]
        ELSE [local |-> [st.local EXCEPT ![k] =
                            [present |-> TRUE, value |-> v, expires_at |-> t + ttl,
                             expiring |-> TRUE]],
              remote |-> IF st.cf /\ r = "error_stored"
                            THEN [st.remote EXCEPT ![k] = put] ELSE st.remote,
              cf |-> FALSE]

\* CacheService.delete: the in-process map only
cache_delete(st, k) == [st EXCEPT !.local[k] = Absent]

\* one pass of CacheService._cleanup_expired
cleanup_expired(local, t) ==
    [k \in DOMAIN local |->
        IF local[k].present /\ local[k].expires_at <= t THEN Absent ELSE local[k]]

CacheState == [local |-> cache_local, remote |-> remote_kv, cf |-> use_cloudflare]

SetCacheState(st) ==
    /\ cache_local' = st.local
    /\ remote_kv' = st.remote
    /\ use_cloudflare' = st.cf

GetReplies == {"reply", "error"}
PutReplies == {"ok", "error", "error_stored"}

CacheGet(k, r) ==
    /\ (~use_cloudflare => r = "reply")
    /\ LET res == cache_get(CacheState, k, now, r)
       IN  /\ SetCacheState(res.st)
           /\ get_last' = [key |-> k, time |-> now, value |-> res.value]
    /\ UNCHANGED <<now, last_write>>
    /\ UNCHANGED outsideCache

CacheSet(k, v, ttl, r) ==
    /\ (~use_cloudflare => r = "ok")
    /\ SetCacheState(cache_set(CacheState, k, v, ttl, now, r))
    /\ last_write' = [last_write EXCEPT ![k] = [written |-> TRUE, time |-> now,
                                                ttl |-> ttl]]
    /\ UNCHANGED <<now, get_last>>
    /\ UNCHANGED outsideCache

CacheDelete(k) ==
    /\ cache_local[k].present
    /\ SetCacheState(cache_delete(CacheState, k))
    /\ UNCHANGED <<now, last_write, get_last>>
    /\ UNCHANGED outsideCache

CacheSweep ==
    /\ \E k \in Keys : cache_local[k].present /\ cache_local[k].expires_at <= now
    /\ cache_local' = cleanup_expired(cache_local, now)
    /\ UNCHANGED <<now, remote_kv, use_cloudflare, last_write, get_last>>
    /\ UNCHANGED outsideCache

CacheTick ==
    /\ now < MaxTime
    /\ now' = now + 1
    /\ UNCHANGED cacheVars
    /\ UNCHANGED outsideCache

\* CacheService.__init__: empty map; the remote tier is in use iff the
\* Cloudflare credentials are configured
CacheInit ==
    /\ now = 0
    /\ cache_local = [k \in Keys |-> Absent]
    /\ remote_kv = [k \in Keys |-> Absent]
    /\ use_cloudflare \in BOOLEAN
    /\ last_write = [k \in Keys |-> [written |-> FALSE, time |-> 0, ttl |-> 0]]
    /\ get_last = [key |-> None, time |-> 0, value |-> None]

\* the cache at rest, for the specifications of the other subsystems
CacheParked ==
    /\ now = 0
    /\ cache_local = [k \in Keys |-> Absent]
    /\ remote_kv = [k \in Keys |-> Absent]
    /\ use_cloudflare = FALSE
    /\ last_write = [k \in Keys |-> [written |-> FALSE, time |-> 0, ttl |-> 0]]
    /\ get_last = [key |-> None, time |-> 0, value |-> None]

NextCache ==
    \/ \E k \in Keys, r \in GetReplies : CacheGet(k, r)
    \/ \E k \in Keys, v \in CacheValues, ttl \in TTLValues, r \in PutReplies :
            CacheSet(k, v, ttl, r)
    \/ \E k \in Keys : CacheDelete(k)
    \/ CacheSweep
    \/ CacheTick


(***************************************************************************)
(*                      MODEL REGISTRY AND TASK ROUTER                      *)
(***************************************************************************)

\* ---- bounds of the router model
MaxRouteCalls == 2
MaxRouterTime == 6

Callers == {"a", "b"}

\* providers with an API key, in the order _initialize_providers registers them
ProviderOrder == <<"openai", "anthropic", "huggingface">>
Providers == {ProviderOrder[i] : i \in 1..Len(ProviderOrder)}

TaskTypes == {"text_generation", "embedding"}

\* ModelRegistry._models in insertion order (_load_all_models)
ModelOrder ==
    <<"gpt-4o", "text-embedding-3-large", "claude-3-5-sonnet-20241022",
      "google/flan-t5-large", "sentence-transformers/all-MiniLM-L6-v2">>
ModelIds == {ModelOrder[i] : i \in 1..Len(ModelOrder)}

\* the Model objects the drivers register; priority_score in tenths, cost in
\* hundred-thousandths of a dollar per 1k tokens
Models ==
    [id \in ModelIds |->
        CASE id = "gpt-4o" ->
                [provider |-> "openai", max_tokens |-> 128000,
                 supports_vision |-> TRUE, supports_functions |-> TRUE,
                 cost_per_1k_tokens |-> 500, priority_score |-> 100,
                 supported_tasks |-> {"text_generation", "summarization",
                     "topic_extraction", "classification", "sensemaking",
                     "planning", "media_analysis", "translation", "chat"},
                 is_available |-> TRUE]
          [] id = "text-embedding-3-large" ->
                [provider |-> "openai", max_tokens |-> 8191,
                 supports_vision |-> FALSE, supports_functions |-> FALSE,
                 cost_per_1k_tokens |-> 13, priority_score |-> 90,
                 supported_tasks |-> {"embedding"},
                 is_available |-> TRUE]
          [] id = "claude-3-5-sonnet-20241022" ->
                [provider |-> "anthropic", max_tokens |-> 200000,
                 supports_vision |-> TRUE, supports_functions |-> FALSE,
                 cost_per_1k_tokens |-> 300, priority_score |-> 100,
                 supported_tasks |-> {"text_generation", "summarization",
                     "topic_extraction", "classification", "sensemaking",
                     "planning", "media_analysis", "translation", "chat"},
                 is_available |-> TRUE]
          [] id = "google/flan-t5-large" ->
                [provider |-> "huggingface", max_tokens |-> 512,
                 supports_vision |-> FALSE, supports_functions |-> FALSE,
                 cost_per_1k_tokens |-> 0, priority_score |-> 70,
                 supported_tasks |-> {"text_generation", "summarization",
                     "translation", "classification"},
                 is_available |-> TRUE]
          [] OTHER ->
                [provider |-> "huggingface", max_tokens |-> 256,
                 supports_vision |-> FALSE, supports_functions |-> FALSE,
                 cost_per_1k_tokens |-> 0, priority_score |-> 80,
                 supported_tasks |-> {"embedding"},
                 is_available |-> TRUE]]

\* ModelRegistry.health_check_interval, in minutes
health_check_interval == 5

\* TaskRouter._fallback_chains
fallback_chains ==
    [t \in TaskTypes |->
        IF t = "text_generation"
            THEN <<"openai", "anthropic", "mistral", "deepseek", "qwen", "huggingface">>
            ELSE <<"openai", "huggingface">>]

\* list.index(x), or len(list) when x is not in the list
IndexOrLen(seq, x) ==
    IF \E i \in 1..Len(seq) : seq[i] = x
        THEN (CHOOSE i \in 1..Len(seq) :
                seq[i] = x /\ \A j \in 1..(i - 1) : seq[j] # x) - 1
        ELSE Len(seq)


\* ModelRegistry.get_models_for_task without the task test
get_models_for_task_any_task(task_type, health) ==
    SelectSeq(ModelOrder, LAMBDA id :
        /\ Models[id].is_available
        /\ health[Models[id].provider])

\* ModelRegistry.get_models_for_task without the provider-health test
get_models_for_task_ignoring_health(task_type, health) ==
    SelectSeq(ModelOrder, LAMBDA id :
        /\ task_type \in Models[id].supported_tasks
        /\ Models[id].is_available)

\* ModelRegistry.get_models_for_task; every provider of the catalogue has an
\* entry in _provider_health
get_models_for_task(task_type, health) ==
    SelectSeq(ModelOrder, LAMBDA id :
        /\ task_type \in Models[id].supported_tasks
        /\ Models[id].is_available
        /\ health[Models[id].provider])

\* the model_requirements a caller passes; a key that is absent is written as
\* the value that never rejects (0, FALSE, a cost above every model's)
NoRequirements ==
    [min_max_tokens |-> 0, supports_vision |-> FALSE,
     supports_functions |-> FALSE, max_cost_per_1k_tokens |-> 100000]

\* the calls the callers make: route_task(task_type, content, priority,
\* preferred_providers, excluded_providers, model_requirements) and
\* get_model_recommendation(task_type, priority, model_requirements), which
\* passes neither preferred nor excluded providers
RouteRequests ==
    { [kind |-> "route_task", task_type |-> "text_generation",
       preferred_providers |-> <<>>, excluded_providers |-> {},
       requirements |-> NoRequirements],
      [kind |-> "route_task", task_type |-> "text_generation",
       preferred_providers |-> <<"huggingface", "anthropic">>,
       excluded_providers |-> {"openai"}, requirements |-> NoRequirements],
      [kind |-> "route_task", task_type |-> "embedding",
       preferred_providers |-> <<>>, excluded_providers |-> {},
       requirements |-> [NoRequirements EXCEPT !.min_max_tokens = 1000]],
      [kind |-> "get_model_recommendation", task_type |-> "text_generation",
       preferred_providers |-> <<>>, excluded_providers |-> {},
       requirements |-> [NoRequirements EXCEPT !.max_cost_per_1k_tokens = 400]] }

\* TaskRouter._meets_requirements
meets_requirements(id, requirements) ==
    /\ ~(Models[id].max_tokens < requirements.min_max_tokens)
    /\ ~(requirements.supports_vision /\ ~Models[id].supports_vision)
    /\ ~(requirements.supports_functions /\ ~Models[id].supports_functions)
    /\ ~(Models[id].cost_per_1k_tokens # 0
            /\ Models[id].cost_per_1k_tokens > requirements.max_cost_per_1k_tokens)

\* model_preference_score without its load-balancing component
model_preference_score_without_load(id, task_type, preferred_providers, lb) ==
    <<IF preferred_providers # <<>>
          THEN IndexOrLen(preferred_providers, Models[id].provider)
          ELSE IndexOrLen(fallback_chains[task_type], Models[id].provider),
      0 - Models[id].priority_score,
      0>>

\* model_preference_score inside TaskRouter._sort_models_by_preference; an
\* empty preferred_providers stands for None as well (both are falsy)
model_preference_score(id, task_type, preferred_providers, lb) ==
    <<IF preferred_providers # <<>>
          THEN IndexOrLen(preferred_providers, Models[id].provider)
          ELSE IndexOrLen(fallback_chains[task_type], Models[id].provider),
      0 - Models[id].priority_score,
      lb[Models[id].provider]>>

\* the score of a router candidate: the model's priority_score, the only
\* score _sort_models_by_preference reads (higher is better)
candidate_score(id) == Models[id].priority_score

\* tuple comparison k1 <= k2
TupleLeq(k1, k2) ==
    \/ k1[1] < k2[1]
    \/ k1[1] = k2[1] /\ k1[2] < k2[2]
    \/ k1[1] = k2[1] /\ k1[2] = k2[2] /\ k1[3] <= k2[3]

\* list.sort(key=...) is stable: an element goes after every element whose key
\* is not greater
RECURSIVE sort_models_by_preference(_, _, _, _)
sort_models_by_preference(models, task_type, preferred_providers, lb) ==
    IF Len(models) <= 1 THEN models
    ELSE LET x == models[Len(models)]
             kx == model_preference_score(x, task_type, preferred_providers, lb)
             rest == sort_models_by_preference(SubSeq(models, 1, Len(models) - 1),
                                               task_type, preferred_providers, lb)
             before == SelectSeq(rest, LAMBDA y :
                 TupleLeq(model_preference_score(y, task_type, preferred_providers, lb), kx))
             after == SelectSeq(rest, LAMBDA y :
                 ~TupleLeq(model_preference_score(y, task_type, preferred_providers, lb), kx))
         IN  before \o <<x>> \o after

\* TaskRouter._get_candidate_models
get_candidate_models(task_type, preferred_providers, excluded_providers, requirements, health, lb) ==
    LET suitable_models == get_models_for_task(task_type, health)
        filtered_models == SelectSeq(suitable_models, LAMBDA id :
            /\ Models[id].provider \notin excluded_providers
            /\ meets_requirements(id, requirements))
    IN  sort_models_by_preference(filtered_models, task_type, preferred_providers, lb)

\* ModelRegistry.update_model_metrics; average_response_time is left out
update_model_metrics(metrics, id, success) ==
    [metrics EXCEPT ![id] =
        [total_requests |-> @.total_requests + 1,
         successful_requests |-> @.successful_requests + (IF success THEN 1 ELSE 0),
         failed_requests |-> @.failed_requests + (IF success THEN 0 ELSE 1)]]

Contents == {"r1", "r2"}
Errors == {"e1", "e2"}
TickSteps == {health_check_interval + 1}

\* no entry in _last_health_check
NoCheck == -1

NoResult == [status |-> None, model_id |-> None, content |-> None, error |-> None]

IdleCall ==
    [pc |-> "idle", kind |-> None, task_type |-> None,
     preferred_providers |-> <<>>, excluded_providers |-> {},
     requirements |-> NoRequirements,
     hc_now |-> 0, hc_idx |-> 0, computed |-> FALSE, candidates |-> <<>>,
     health_seen |-> [p \in Providers |-> FALSE], idx |-> 0, attempts |-> <<>>,
     last_error |-> None, result |-> NoResult]

\* the test of a registry that checks a provider only once
needs_check_first_time_only(p, hc_now, lhc) ==
    lhc[p] = NoCheck

\* the test of ModelRegistry.health_check_if_needed for one provider
needs_check(p, hc_now, lhc) ==
    lhc[p] = NoCheck \/ hc_now - lhc[p] > health_check_interval

\* the next provider, from position i on, whose health check is awaited; 0 when
\* the loop of health_check_if_needed ends without another await
next_check_index(i, hc_now, lhc) ==
    IF \E j \in i..Len(ProviderOrder) : needs_check(ProviderOrder[j], hc_now, lhc)
        THEN CHOOSE j \in i..Len(ProviderOrder) :
                /\ needs_check(ProviderOrder[j], hc_now, lhc)
                /\ \A k \in i..(j - 1) : ~needs_check(ProviderOrder[k], hc_now, lhc)
        ELSE 0

\* route_task, loop body up to the await of provider.process for candidate i.
\* get_provider finds every provider of the catalogue, so the branch
\* "if not provider: continue" is not taken.
begin_attempt(r, i, health) ==
    [r EXCEPT !.pc = "processing", !.idx = i,
              !.attempts = Append(@, [model |-> r.candidates[i],
                                      healthy |-> health[Models[r.candidates[i]].provider],
                                      outcome |-> "pending", payload |-> None])]

\* from the end of health_check_if_needed to the next await (route_task) or to
\* the return (get_model_recommendation)
after_health(r, health, lb) ==
    LET cands == get_candidate_models(r.task_type, r.preferred_providers,
                                      r.excluded_providers, r.requirements, health, lb)
        base == [r EXCEPT !.computed = TRUE, !.candidates = cands,
                          !.health_seen = health, !.hc_idx = 0, !.hc_now = 0]
    IN  IF r.kind = "get_model_recommendation"
            THEN [base EXCEPT !.pc = "done",
                    !.result = [NoResult EXCEPT !.status = "ok",
                        !.model_id = IF cands = <<>> THEN None ELSE cands[1]]]
        ELSE IF cands = <<>>
            THEN [base EXCEPT !.pc = "done",
                    !.result = [NoResult EXCEPT !.status = "ValueError"]]
        ELSE begin_attempt(base, 1, health)

\* route_task after provider.process returned: the response is returned
after_success(r, content) ==
    [r EXCEPT !.pc = "done",
              !.attempts[Len(r.attempts)].outcome = "success",
              !.attempts[Len(r.attempts)].payload = content,
              !.result = [NoResult EXCEPT !.status = "ok",
                             !.model_id = r.candidates[r.idx], !.content = content]]

\* route_task after a failure, with a loop that gives up at the first failure
after_failure_giving_up(r, e, health) ==
    [r EXCEPT !.pc = "done",
              !.attempts[Len(r.attempts)].outcome = "failed",
              !.attempts[Len(r.attempts)].payload = e,
              !.last_error = e,
              !.result = [NoResult EXCEPT !.status = "Exception", !.error = e]]

\* route_task after provider.process raised e: the next candidate, or the
\* final Exception carrying the last error
after_failure(r, e, health) ==
    LET r1 == [r EXCEPT !.attempts[Len(r.attempts)].outcome = "failed",
                        !.attempts[Len(r.attempts)].payload = e,
                        !.last_error = e]
    IN  IF r.idx < Len(r.candidates)
            THEN begin_attempt(r1, r.idx + 1, health)
            ELSE [r1 EXCEPT !.pc = "done",
                    !.result = [NoResult EXCEPT !.status = "Exception", !.error = e]]

RouteStart(c, req) ==
    /\ route[c].pc \in {"idle", "done"}
    /\ route_calls < MaxRouteCalls
    /\ LET r0 == [IdleCall EXCEPT !.kind = req.kind,
                      !.task_type = req.task_type,
                      !.preferred_providers = req.preferred_providers,
                      !.excluded_providers = req.excluded_providers,
                      !.requirements = req.requirements,
                      !.hc_now = now]
           i == next_check_index(1, now, last_health_check)
       IN  route' = [route EXCEPT ![c] =
                IF i # 0 THEN [r0 EXCEPT !.pc = "health", !.hc_idx = i]
                ELSE after_health(r0, provider_health, load_balancing)]
    /\ route_calls' = route_calls + 1
    /\ UNCHANGED <<provider_health, last_health_check, performance_metrics,
                   load_balancing, now>>
    /\ UNCHANGED outsideRouter

\* the awaited provider.health_check() of health_check_if_needed returns
HealthCheckDone(c, is_healthy) ==
    /\ route[c].pc = "health"
    /\ LET r == route[c]
           p == ProviderOrder[r.hc_idx]
           health2 == [provider_health EXCEPT ![p] = is_healthy]
           lhc2 == [last_health_check EXCEPT ![p] = r.hc_now]
           i == next_check_index(r.hc_idx + 1, r.hc_now, lhc2)
       IN  /\ provider_health' = health2
           /\ last_health_check' = lhc2
           /\ route' = [route EXCEPT ![c] =
                    IF i # 0 THEN [r EXCEPT !.hc_idx = i]
                    ELSE after_health(r, health2, load_balancing)]
    /\ UNCHANGED <<performance_metrics, load_balancing, route_calls, now>>
    /\ UNCHANGED outsideRouter

\* the awaited provider.process() of route_task returns a response
ProcessSucceeded(c, content) ==
    /\ route[c].pc = "processing"
    /\ LET r == route[c]
           m == r.candidates[r.idx]
       IN  /\ performance_metrics' = update_model_metrics(performance_metrics, m, TRUE)
           /\ load_balancing' = [load_balancing EXCEPT ![Models[m].provider] = @ + 1]
           /\ route' = [route EXCEPT ![c] = after_success(r, content)]
    /\ UNCHANGED <<provider_health, last_health_check, route_calls, now>>
    /\ UNCHANGED outsideRouter

\* route_task when the task running it is cancelled while provider.process is
\* awaited, with an interpreter in which CancelledError is an Exception: the
\* cancelled attempt is handled as a failed one
after_cancel_caught(r, health) ==
    LET r1 == [r EXCEPT !.attempts[Len(r.attempts)].outcome = "cancelled",
                        !.last_error = "CancelledError"]
    IN  IF r.idx < Len(r.candidates)
            THEN begin_attempt(r1, r.idx + 1, health)
            ELSE [r1 EXCEPT !.pc = "done",
                    !.result = [NoResult EXCEPT !.status = "Exception",
                                                !.error = "CancelledError"]]

\* route_task when the task running it is cancelled while provider.process is
\* awaited: asyncio raises CancelledError inside the driver's pending HTTP
\* call; the drivers re-raise what they catch, and CancelledError derives from
\* BaseException, so "except Exception" of the loop does not handle it: the
\* coroutine ends with CancelledError, no metric is recorded and no further
\* candidate is tried
after_cancel(r, health) ==
    [r EXCEPT !.pc = "done",
              !.attempts[Len(r.attempts)].outcome = "cancelled",
              !.result = [NoResult EXCEPT !.status = "CancelledError"]]

\* the caller cancels route_task while provider.process is awaited
RouteCancelled(c) ==
    /\ route[c].pc = "processing"
    /\ route' = [route EXCEPT ![c] = after_cancel(route[c], provider_health)]
    /\ UNCHANGED <<provider_health, last_health_check, performance_metrics,
                   load_balancing, route_calls, now>>
    /\ UNCHANGED outsideRouter

\* the same with a router that counts a failed attempt in _load_balancing
ProcessFailedCountingLoad(c, e) ==
    /\ route[c].pc = "processing"
    /\ LET r == route[c]
           m == r.candidates[r.idx]
       IN  /\ performance_metrics' = update_model_metrics(performance_metrics, m, FALSE)
           /\ load_balancing' = [load_balancing EXCEPT ![Models[m].provider] = @ + 1]
           /\ route' = [route EXCEPT ![c] = after_failure(r, e, provider_health)]
    /\ UNCHANGED <<provider_health, last_health_check, route_calls, now>>
    /\ UNCHANGED outsideRouter

\* the awaited provider.process() of route_task raises
ProcessFailed(c, e) ==
    /\ route[c].pc = "processing"
    /\ LET r == route[c]
           m == r.candidates[r.idx]
       IN  /\ performance_metrics' = update_model_metrics(performance_metrics, m, FALSE)
           /\ route' = [route EXCEPT ![c] = after_failure(r, e, provider_health)]
    /\ UNCHANGED <<provider_health, last_health_check, load_balancing, route_calls, now>>
    /\ UNCHANGED outsideRouter

RouterTick(d) ==
    /\ now + d <= MaxRouterTime
    /\ now' = now + d
    /\ UNCHANGED routerVars
    /\ UNCHANGED outsideRouter

\* after ModelRegistry.initialize: every provider was health-checked once
RouterInit ==
    /\ provider_health \in [Providers -> BOOLEAN]
    /\ last_health_check = [p \in Providers |-> 0]
    /\ performance_metrics = [id \in ModelIds |->
            [total_requests |-> 0, successful_requests |-> 0, failed_requests |-> 0]]
    /\ load_balancing = [p \in Providers |-> 0]
    /\ route = [c \in Callers |-> IdleCall]
    /\ route_calls = 0

\* the router at rest, for the specifications of the other subsystems
RouterParked ==
    /\ provider_health = [p \in Providers |-> TRUE]
    /\ last_health_check = [p \in Providers |-> 0]
    /\ performance_metrics = [id \in ModelIds |->
            [total_requests |-> 0, successful_requests |-> 0, failed_requests |-> 0]]
    /\ load_balancing = [p \in Providers |-> 0]
    /\ route = [c \in Callers |-> IdleCall]
    /\ route_calls = 0

NextRouter ==
    \/ \E c \in Callers, req \in RouteRequests : RouteStart(c, req)
    \/ \E c \in Callers, is_healthy \in BOOLEAN : HealthCheckDone(c, is_healthy)
    \/ \E c \in Callers, content \in Contents : ProcessSucceeded(c, content)
    \/ \E c \in Callers, e \in Errors : ProcessFailed(c, e)
    \/ \E d \in TickSteps : RouterTick(d)

\* the router with callers that may cancel a route_task in flight, within one
\* health-check interval of the registry's initialisation (no health check
\* falls due, so route_task goes straight to its candidates)
NextRouterCancel ==
    \/ \E c \in Callers, req \in RouteRequests : RouteStart(c, req)
    \/ \E c \in Callers, content \in Contents : ProcessSucceeded(c, content)
    \/ \E c \in Callers, e \in Errors : ProcessFailed(c, e)
    \/ \E c \in Callers : RouteCancelled(c)

\* the requests of RouteRequests and one whose preferred provider leaves two
\* providers unlisted
SortRequests ==
    RouteRequests \cup
    { [kind |-> "route_task", task_type |-> "text_generation",
       preferred_providers |-> <<"huggingface">>, excluded_providers |-> {},
       requirements |-> NoRequirements] }

\* the router within one health-check interval of the registry's initialisation
NextRouterSort ==
    \/ \E c \in Callers, req \in SortRequests : RouteStart(c, req)
    \/ \E c \in Callers, content \in Contents : ProcessSucceeded(c, content)
    \/ \E c \in Callers, e \in Errors : ProcessFailed(c, e)

(***************************************************************************)
(*                          THE AUTOMODEL FACADE                            *)
(***************************************************************************)

\* ---- bounds of the facade model
MaxProcCalls == 2

\* _cache_response: settings has no CACHE_TTL, so 3600 seconds; in minutes
CACHE_TTL == 60

\* _track_performance keeps the last 1000 records
max_performance_metrics == 1000

\* the process calls the callers make.  Strings that end up in the cache key
\* are sequences of symbols; None is the absent argument.
ProcRequests ==
    LET base == [task_type |-> "text_generation", content |-> <<"h", "i">>,
                 provider |-> None, model_id |-> None, max_tokens |-> None,
                 temperature |-> "0.7", template_id |-> None, session_id |-> None,
                 cache_key |-> None, use_cache |-> TRUE]
    IN  { base,
          [base EXCEPT !.provider = "openai", !.model_id = "gpt-4o"],
          [base EXCEPT !.use_cache = FALSE],
          [base EXCEPT !.provider = "openai",
                       !.model_id = "claude-3-5-sonnet-20241022"],
          [base EXCEPT !.session_id = "s1"] }

\* the values "if x" takes for false: None, 0, 0.0 and the empty string
Falsy == {None, "0", "0.0", ""}

\* str(x) if x else ""
StrOrEmpty(x) == IF x \in Falsy THEN <<>> ELSE <<x>>

\* ":".join(parts)
RECURSIVE Join(_)
Join(parts) ==
    IF Len(parts) = 0 THEN <<>>
    ELSE IF Len(parts) = 1 THEN parts[1]
    ELSE parts[1] \o <<":">> \o Join(Tail(parts))

\* the key _try_cache and _cache_response compute: f"automodel:{cache_key}"
cache_key(req) ==
    <<"automodel:">> \o
        (IF req.cache_key # None THEN <<req.cache_key>>
         ELSE Join(<< <<req.task_type>>, req.content, StrOrEmpty(req.provider),
                      StrOrEmpty(req.model_id), StrOrEmpty(req.max_tokens),
                      StrOrEmpty(req.temperature), StrOrEmpty(req.template_id) >>))

ProcKeys == {cache_key(req) : req \in ProcRequests}

\* ProcessResponse.json() and ProcessResponse.parse_raw()
response_json(response) == [json |-> response]
parse_raw(data) == data.json

\* the session ids uuid4 yields in create_session, and passed to process
SessionIds == {"s1", "s2"}

\* the empty context {}
EmptyContext == <<>>

NoSession == [present |-> FALSE, context |-> EmptyContext]

\* AutoModel._get_session_context
get_session_context(sessions, session_id) ==
    IF sessions[session_id].present THEN sessions[session_id].context
    ELSE EmptyContext

\* AutoModel._update_session_context
update_session_context(sessions, session_id, context) ==
    [sessions EXCEPT ![session_id] = [present |-> TRUE, context |-> context]]

NoProcResult == [status |-> None, content |-> None, cached |-> FALSE, model_id |-> None]

IdleProc ==
    [pc |-> "idle", req |-> None, key |-> <<>>, steps |-> <<>>, model_id |-> None,
     content |-> None, tracked |-> <<>>, expect |-> None, raised |-> None,
     session_context |-> None, session_seen |-> FALSE, result |-> NoProcResult]

\* no process_with_models call yet
IdleWithModels ==
    [pc |-> "idle", model_configs |-> <<>>, compare_results |-> FALSE, i |-> 0,
     results |-> <<>>, errors |-> <<>>, returned |-> None, raised |-> None]

\* the errors after which process tries its fallback pass
FallbackErrors ==
    {"ProviderNotAvailableError", "ModelNotFoundError", "TaskNotSupportedError"}

pinned(req) == req.provider # None /\ req.model_id # None

\* _track_performance keeping the first 1000 records instead of the last
track_performance_keeping_oldest(l, provider, model_id, success) ==
    LET l2 == Append(l, [provider |-> provider, model_id |-> model_id,
                         success |-> success])
    IN  IF Len(l2) > max_performance_metrics
            THEN SubSeq(l2, 1, max_performance_metrics)
            ELSE l2

\* AutoModel._track_performance
track_performance(l, provider, model_id, success) ==
    LET l2 == Append(l, [provider |-> provider, model_id |-> model_id,
                         success |-> success])
    IN  IF Len(l2) > max_performance_metrics
            THEN SubSeq(l2, Len(l2) - max_performance_metrics + 1, Len(l2))
            ELSE l2

\* AutoModel._route_request, after the health checks of the recommendation path
route_request(req, health, lb) ==
    IF pinned(req)
        THEN IF req.provider \notin Providers
                THEN [error |-> "ProviderNotAvailableError", model_id |-> None]
             ELSE IF req.model_id \notin ModelIds
                        \/ Models[req.model_id].provider # req.provider
                THEN [error |-> "ModelNotFoundError", model_id |-> None]
             ELSE IF req.task_type \notin Models[req.model_id].supported_tasks
                THEN [error |-> "TaskNotSupportedError", model_id |-> None]
             ELSE [error |-> None, model_id |-> req.model_id]
    ELSE LET cands == get_candidate_models(req.task_type, <<>>, {}, NoRequirements,
                                           health, lb)
         IN  IF cands = <<>>
                THEN [error |-> "ModelNotFoundError", model_id |-> None]
                ELSE [error |-> None, model_id |-> cands[1]]

\* the state a facade step works on: the caller's call record r and the shared
\* state the step may change
Cur(c) ==
    [r |-> proc[c], ledger |-> ledger, st |-> CacheState, health |-> provider_health,
     lhc |-> last_health_check, lc |-> last_cached, sessions |-> active_sessions]

ApplyEff(c, e) ==
    /\ proc' = [proc EXCEPT ![c] = e.r]
    /\ ledger' = e.ledger
    /\ SetCacheState(e.st)
    /\ provider_health' = e.health
    /\ last_health_check' = e.lhc
    /\ last_cached' = e.lc
    /\ active_sessions' = e.sessions

\* process, the "except Exception as e" block: a ledger record only when both
\* provider and model_id were passed; for a fallback error of a call that
\* passed a provider or a model id, the fallback pass is prepared, and setting
\* is_fallback on the ProcessRequest copy raises ValueError (no such field)
handle_exception(e, err) ==
    LET req == e.r.req
        both == pinned(req)
        fallback == err \in FallbackErrors
                        /\ (req.provider # None \/ req.model_id # None)
    IN  [e EXCEPT
            !.ledger = IF both
                          THEN track_performance(@, req.provider, req.model_id, FALSE)
                          ELSE @,
            !.r.tracked = IF both THEN Append(@, FALSE) ELSE @,
            !.r.steps = IF both THEN Append(@, "ledger") ELSE @,
            !.r.pc = "done",
            !.r.raised = err,
            !.r.result = [NoProcResult EXCEPT
                            !.status = IF fallback THEN "ValueError" ELSE err]]

\* process from a cache miss to the await of provider.process.  hc is the
\* health of the providers after the health checks that
\* get_model_recommendation awaits (none for a call with provider and model).
after_cache_miss(e, hc) ==
    LET req == e.r.req
        lhc2 == [p \in Providers |->
                    IF ~pinned(req) /\ needs_check(p, now, e.lhc) THEN now ELSE e.lhc[p]]
        health2 == IF pinned(req) THEN e.health ELSE hc
        rt == route_request(req, health2, load_balancing)
        e0 == IF req.session_id = None THEN e
              ELSE [e EXCEPT
                    !.r.session_context = get_session_context(e.sessions, req.session_id),
                    !.r.session_seen = e.sessions[req.session_id].present]
        e1 == [e0 EXCEPT !.health = health2, !.lhc = lhc2,
                         !.r.steps = Append(@, "route")]
    IN  IF rt.error # None
            THEN handle_exception(e1, rt.error)
            ELSE [e1 EXCEPT !.r.pc = "driver", !.r.model_id = rt.model_id,
                            !.r.steps = Append(e1.r.steps, "driver")]

\* hc differs from the recorded health only where a health check is due
HcAdmissible(req, hc) ==
    \A p \in Providers :
        hc[p] # provider_health[p] =>
            (~pinned(req) /\ needs_check(p, now, last_health_check))

\* process returns the response _try_cache built from the cached data
cache_hit(e, data) ==
    [e EXCEPT !.r.pc = "done",
              !.r.result = [status |-> "ok", content |-> parse_raw(data).content,
                            cached |-> TRUE, model_id |-> parse_raw(data).model_id]]

\* process after the cache write: the ledger record and the return
finish_success(e) ==
    LET r == e.r
    IN  [e EXCEPT
            !.ledger = track_performance(@, Models[r.model_id].provider, r.model_id, TRUE),
            !.r.tracked = Append(@, TRUE),
            !.r.steps = Append(@, "ledger"),
            !.r.pc = "done",
            !.r.result = [status |-> "ok", content |-> r.content, cached |-> FALSE,
                          model_id |-> r.model_id],
            !.lc = IF r.req.use_cache
                      THEN [@ EXCEPT ![r.key] = [done |-> TRUE, time |-> now,
                                                 content |-> r.content]]
                      ELSE @]

\* process with a provider response that carries a session context, which
\* process stores for the session
driver_returned_updating_session(e, content) ==
    LET r == e.r
        e1 == IF r.req.session_id = None THEN [e EXCEPT !.r.content = content]
              ELSE [e EXCEPT !.r.content = content,
                             !.sessions = update_session_context(@, r.req.session_id,
                                                                 <<content>>)]
        data == response_json([content |-> content, model_id |-> r.model_id])
    IN  IF ~r.req.use_cache THEN finish_success(e1)
        ELSE IF e.st.cf
            THEN [e1 EXCEPT !.r.pc = "cache_put", !.r.steps = Append(@, "cache_write")]
        ELSE finish_success(
                [e1 EXCEPT !.st = cache_set(e.st, r.key, data, CACHE_TTL, now, "ok"),
                           !.r.steps = Append(@, "cache_write")])

\* process with the cache write placed before the look at the provider
\* response's session context
driver_returned_caching_first(e, content) ==
    LET r == e.r
        data == response_json([content |-> content, model_id |-> r.model_id])
        e1 == IF r.req.use_cache
                THEN [e EXCEPT !.r.content = content,
                               !.st = cache_set(e.st, r.key, data, CACHE_TTL, now, "ok"),
                               !.r.steps = Append(@, "cache_write")]
                ELSE [e EXCEPT !.r.content = content]
    IN  IF r.req.session_id # None THEN handle_exception(e1, "AttributeError")
        ELSE finish_success(e1)

\* process after provider.process returned a response with this content
driver_returned(e, content) ==
    LET r == e.r
        e1 == [e EXCEPT !.r.content = content]
        data == response_json([content |-> content, model_id |-> r.model_id])
    IN  \* provider_response.session_context: ProviderResponse has no such field
        IF r.req.session_id # None THEN handle_exception(e1, "AttributeError")
        ELSE IF ~r.req.use_cache THEN finish_success(e1)
        ELSE IF e.st.cf
            THEN [e1 EXCEPT !.r.pc = "cache_put", !.r.steps = Append(@, "cache_write")]
        ELSE finish_success(
                [e1 EXCEPT !.st = cache_set(e.st, r.key, data, CACHE_TTL, now, "ok"),
                           !.r.steps = Append(@, "cache_write")])

\* CacheService.get when the awaited GET ends
remote_get_done(st, k, t, reply) ==
    IF reply = "reply"
        THEN [hit |-> remote_live(st.remote[k], t), value |-> st.remote[k].value,
              st |-> st]
        ELSE cache_get([st EXCEPT !.cf = FALSE], k, t, reply)

\* CacheService.set when the awaited PUT ends
remote_put_done(st, k, v, ttl, t, reply) ==
    [cache_set([st EXCEPT !.cf = TRUE], k, v, ttl, t, reply) EXCEPT
        !.cf = IF reply = "ok" THEN st.cf ELSE FALSE]

NoSessionLog ==
    [created |-> {}, deleted |-> {}, in_flight |-> [s \in SessionIds |-> {}]]

\* AutoModel.create_session: a fresh id with the empty context
CreateSession(s) ==
    /\ s \notin session_log.created
    /\ active_sessions' = [active_sessions EXCEPT ![s] =
                                [present |-> TRUE, context |-> EmptyContext]]
    /\ session_log' = [session_log EXCEPT !.created = @ \cup {s}]
    /\ UNCHANGED outsideSessions

\* AutoModel.delete_session, called once with an id create_session returned
DeleteSession(s) ==
    /\ s \in session_log.created
    /\ s \notin session_log.deleted
    /\ active_sessions' = IF active_sessions[s].present
                              THEN [active_sessions EXCEPT ![s] = NoSession]
                              ELSE active_sessions
    /\ session_log' = [session_log EXCEPT
            !.deleted = @ \cup {s},
            !.in_flight[s] = {c \in Callers : /\ proc[c].pc \notin {"idle", "done"}
                                               /\ proc[c].req.session_id = s}]
    /\ UNCHANGED outsideSessions

ProcStart(c, req, hc) ==
    /\ proc[c].pc \in {"idle", "done"}
    /\ proc_calls < MaxProcCalls
    /\ HcAdmissible(req, hc)
    /\ LET k == cache_key(req)
           r0 == [IdleProc EXCEPT !.pc = "start", !.req = req, !.key = k,
                    !.expect = IF req.use_cache /\ last_cached[k].done
                                    /\ now < last_cached[k].time + CACHE_TTL
                                  THEN last_cached[k].content ELSE None]
           e0 == [Cur(c) EXCEPT !.r = r0]
           e1 == [e0 EXCEPT !.r.steps = Append(@, "cache_lookup")]
           res == cache_get(e0.st, k, now, "reply")
       IN  ApplyEff(c,
                IF ~req.use_cache THEN after_cache_miss(e0, hc)
                ELSE IF use_cloudflare THEN [e1 EXCEPT !.r.pc = "cache_get"]
                ELSE IF res.hit THEN cache_hit([e1 EXCEPT !.st = res.st], res.value)
                ELSE after_cache_miss([e1 EXCEPT !.st = res.st], hc))
    /\ proc_calls' = proc_calls + 1
    /\ UNCHANGED now
    /\ UNCHANGED outsideProcess

\* the GET that CacheService.get awaits ends
ProcCacheGot(c, reply, hc) ==
    /\ proc[c].pc = "cache_get"
    /\ HcAdmissible(proc[c].req, hc)
    /\ LET e == Cur(c)
           res == remote_get_done(e.st, e.r.key, now, reply)
       IN  ApplyEff(c,
                IF res.hit THEN cache_hit([e EXCEPT !.st = res.st], res.value)
                ELSE after_cache_miss([e EXCEPT !.st = res.st], hc))
    /\ UNCHANGED <<proc_calls, now>>
    /\ UNCHANGED outsideProcess

\* the awaited provider.process returns a response
ProcDriverSucceeded(c, content) ==
    /\ proc[c].pc = "driver"
    /\ ApplyEff(c, driver_returned(Cur(c), content))
    /\ UNCHANGED <<proc_calls, now>>
    /\ UNCHANGED outsideProcess

\* the awaited provider.process raises
ProcDriverFailed(c) ==
    /\ proc[c].pc = "driver"
    /\ ApplyEff(c, handle_exception(Cur(c), "DriverError"))
    /\ UNCHANGED <<proc_calls, now>>
    /\ UNCHANGED outsideProcess

\* the PUT that CacheService.set awaits ends
ProcCachePut(c, reply) ==
    /\ proc[c].pc = "cache_put"
    /\ LET e == Cur(c)
           data == response_json([content |-> e.r.content, model_id |-> e.r.model_id])
       IN  ApplyEff(c, finish_success(
                [e EXCEPT !.st = remote_put_done(e.st, e.r.key, data, CACHE_TTL,
                                                 now, reply)]))
    /\ UNCHANGED <<proc_calls, now>>
    /\ UNCHANGED outsideProcess

ProcTick(d) ==
    /\ now + d <= MaxRouterTime
    /\ now' = now + d
    /\ UNCHANGED <<cache_local, remote_kv, use_cloudflare, provider_health,
                   last_health_check>>
    /\ UNCHANGED processVars
    /\ UNCHANGED outsideProcess

\* after AutoModel.initialize: empty cache over the keys of the calls, remote
\* tier in use iff configured, every provider health-checked once and found
\* healthy (later health checks can fail)
ProcInit ==
    /\ now = 0
    /\ cache_local = [k \in ProcKeys |-> Absent]
    /\ remote_kv = [k \in ProcKeys |-> Absent]
    /\ use_cloudflare \in BOOLEAN
    /\ last_write = [k \in Keys |-> [written |-> FALSE, time |-> 0, ttl |-> 0]]
    /\ get_last = [key |-> None, time |-> 0, value |-> None]
    /\ provider_health = [p \in Providers |-> TRUE]
    /\ last_health_check = [p \in Providers |-> 0]
    /\ performance_metrics = [id \in ModelIds |->
            [total_requests |-> 0, successful_requests |-> 0, failed_requests |-> 0]]
    /\ load_balancing = [p \in Providers |-> 0]
    /\ route = [c \in Callers |-> IdleCall]
    /\ route_calls = 0
    /\ proc = [c \in Callers |-> IdleProc]
    /\ ledger = <<>>
    /\ last_cached = [k \in ProcKeys |-> [done |-> FALSE, time |-> 0, content |-> None]]
    /\ proc_calls = 0
    /\ active_sessions = [s \in SessionIds |-> NoSession]
    /\ session_log = NoSessionLog
    /\ with_models = IdleWithModels

\* the facade at rest, for the specifications of the other subsystems
ProcParked ==
    /\ proc = [c \in Callers |-> IdleProc]
    /\ ledger = <<>>
    /\ last_cached = [k \in ProcKeys |-> [done |-> FALSE, time |-> 0, content |-> None]]
    /\ proc_calls = 0
    /\ active_sessions = [s \in SessionIds |-> NoSession]
    /\ session_log = NoSessionLog
    /\ with_models = IdleWithModels

NextProcess ==
    \/ \E c \in Callers, req \in ProcRequests, hc \in [Providers -> BOOLEAN] :
            ProcStart(c, req, hc)
    \/ \E c \in Callers, reply \in GetReplies, hc \in [Providers -> BOOLEAN] :
            ProcCacheGot(c, reply, hc)
    \/ \E c \in Callers, content \in Contents : ProcDriverSucceeded(c, content)
    \/ \E c \in Callers : ProcDriverFailed(c)
    \/ \E c \in Callers, reply \in PutReplies : ProcCachePut(c, reply)
    \/ \E d \in TickSteps : ProcTick(d)

(***************************************************************************)
(*                 process_with_models: ONE CALL PER CONFIG                 *)
(***************************************************************************)

\* the caller whose process calls process_with_models makes
WithModelsCaller == "a"

\* the process call of one model config: provider and model id both given
ConfigRequests == {req \in ProcRequests : pinned(req)}

\* the model_configs lists: as many configs as process calls can be made
ConfigLists == UNION {[1..n -> ConfigRequests] : n \in 0..MaxProcCalls}

\* process_with_models up to its loop
WithModelsStart(model_configs, compare_results) ==
    /\ with_models.pc = "idle"
    /\ with_models' = [IdleWithModels EXCEPT !.pc = "loop",
                            !.model_configs = model_configs,
                            !.compare_results = compare_results, !.i = 0]
    /\ UNCHANGED <<now, cacheVars, routerVars, processVars>>
    /\ UNCHANGED <<gateVars, metricsVars, arrived, session_log, lateVars>>

\* the loop body up to the await inside cls.process for config i (0-based)
WithModelsCall(hc) ==
    /\ with_models.pc = "loop"
    /\ with_models.i < Len(with_models.model_configs)
    /\ proc_calls = with_models.i
    /\ ProcStart(WithModelsCaller, with_models.model_configs[with_models.i + 1], hc)

\* what process_with_models does with the outcome of cls.process for config
\* i: a response goes to results (and is returned at once unless comparing),
\* an exception goes to errors and is logged (and is re-raised when not
\* comparing and there is only one config)
after_process(w, r) ==
    IF r.raised = None
        THEN LET result == [content |-> r.result.content, model_id |-> r.result.model_id,
                            cached |-> r.result.cached, config_index |-> w.i]
             IN  IF ~w.compare_results
                    THEN [w EXCEPT !.results = Append(@, result), !.pc = "done",
                                   !.returned = result]
                    ELSE [w EXCEPT !.results = Append(@, result), !.i = @ + 1]
        ELSE LET error_info == [config_index |-> w.i, error |-> r.result.status]
             IN  IF ~w.compare_results /\ Len(w.model_configs) = 1
                    THEN [w EXCEPT !.errors = Append(@, error_info), !.pc = "done",
                                   !.raised = r.result.status]
                    ELSE [w EXCEPT !.errors = Append(@, error_info), !.i = @ + 1]

\* process_with_models after its loop
after_loop(w) ==
    IF w.pc = "done" \/ w.i < Len(w.model_configs) THEN w
    ELSE IF w.compare_results /\ ~(w.results = <<>> /\ w.errors # <<>>)
        THEN [w EXCEPT !.pc = "done", !.returned = w.results]
    ELSE [w EXCEPT !.pc = "done", !.raised = "ProcessingError"]

\* cls.process for config i has ended: the rest of the loop body, and the end
\* of process_with_models when that was the last config
WithModelsCollect ==
    /\ with_models.pc = "loop"
    /\ \/ /\ with_models.i < Len(with_models.model_configs)
          /\ proc_calls = with_models.i + 1
          /\ proc[WithModelsCaller].pc = "done"
          /\ with_models' = after_loop(after_process(with_models, proc[WithModelsCaller]))
       \/ /\ with_models.model_configs = <<>>
          /\ with_models' = after_loop(with_models)
    /\ UNCHANGED <<now, cacheVars, routerVars, processVars>>
    /\ UNCHANGED <<gateVars, metricsVars, arrived, session_log, lateVars>>

NextWithModels ==
    \/ \E model_configs \in ConfigLists, compare_results \in BOOLEAN :
            WithModelsStart(model_configs, compare_results)
    \/ \E hc \in [Providers -> BOOLEAN] : WithModelsCall(hc)
    \/ WithModelsCollect
    \/ \E reply \in GetReplies, hc \in [Providers -> BOOLEAN] :
            ProcCacheGot(WithModelsCaller, reply, hc)
    \/ \E content \in Contents : ProcDriverSucceeded(WithModelsCaller, content)
    \/ ProcDriverFailed(WithModelsCaller)
    \/ \E reply \in PutReplies : ProcCachePut(WithModelsCaller, reply)
    \/ \E d \in TickSteps : ProcTick(d)

(***************************************************************************)
(*                     THE REGISTRY'S PER-MODEL METRICS                     *)
(***************************************************************************)

\* ---- bound of the metrics model: update_model_metrics calls per model
MaxMetricUpdates == 5

\* Python floats are IEEE 754 binary64: 53 significant bits, round to nearest,
\* ties to even.  A float in [0, 1] is zero or 0.(lead zeros)(bits) in binary
\* with bits[1] = 1; 1.0 has lead = -1.
FloatPrecision == 53

FloatZero == [zero |-> TRUE, lead |-> 0, bits |-> <<>>]

FloatOne == [zero |-> FALSE, lead |-> -1,
             bits |-> [i \in 1..FloatPrecision |-> IF i = 1 THEN 1 ELSE 0]]

\* the bits of the integer q, most significant first, as a string of width w
BitsOf(q, w) == [j \in 1..w |-> (q \div 2^(w - j)) % 2]

\* the next w bits of r/d and the remainder left, by long division
\* (r < d, w <= 24)
DivChunk(r, d, w) == [bits |-> BitsOf((r * 2^w) \div d, w), rem |-> (r * 2^w) % d]

\* the next count bits of r/d and the remainder left (r < d, count <= 72)
DivBits(r, d, count) ==
    LET w1 == IF count < 24 THEN count ELSE 24
        w2 == IF count - w1 < 24 THEN count - w1 ELSE 24
        c1 == DivChunk(r, d, w1)
        c2 == DivChunk(c1.rem, d, w2)
        c3 == DivChunk(c2.rem, d, count - w1 - w2)
    IN  [bits |-> c1.bits \o c2.bits \o c3.bits, rem |-> c3.rem]

\* the number of zero bits of r/d before its first one bit (0 < r < d)
LeadZeros(r, d) == CHOOSE z \in 0..24 : r * 2^z < d /\ r * 2^(z + 1) >= d

\* a bit string plus one
IncBits(b) ==
    IF \A i \in 1..Len(b) : b[i] = 1
        THEN [bits |-> [i \in 1..Len(b) |-> 0], carry |-> 1]
        ELSE LET p == CHOOSE i \in 1..Len(b) :
                        b[i] = 0 /\ \A j \in (i + 1)..Len(b) : b[j] = 1
             IN  [bits |-> [i \in 1..Len(b) |->
                                IF i < p THEN b[i] ELSE IF i = p THEN 1 ELSE 0],
                  carry |-> 0]

\* the float above 0.(lead zeros)(bits)
FloatNext(lead, bits) ==
    LET i == IncBits(bits)
    IN  IF i.carry = 1 THEN [FloatOne EXCEPT !.lead = lead - 1]
        ELSE [zero |-> FALSE, lead |-> lead, bits |-> i.bits]

\* float division n / d for integers 0 <= n <= d, d > 0
float_div(n, d) ==
    IF n = 0 THEN FloatZero
    ELSE IF n = d THEN FloatOne
    ELSE LET lead == LeadZeros(n, d)
             q == DivBits(n * 2^lead, d, FloatPrecision)
             up == \/ 2 * q.rem > d
                   \/ (2 * q.rem = d /\ q.bits[FloatPrecision] = 1)
         IN  IF up THEN FloatNext(lead, q.bits)
             ELSE [zero |-> FALSE, lead |-> lead, bits |-> q.bits]

\* float subtraction 1.0 - x for a float x in [0, 1]: the exact difference
\* (two's complement of the fixed-point string of x), rounded to a float
float_one_minus(x) ==
    IF x.zero THEN FloatOne
    ELSE IF x.lead = -1 THEN FloatZero
    ELSE LET fixed == [i \in 1..x.lead |-> 0] \o x.bits
             len == Len(fixed)
             g == IncBits([i \in 1..len |-> 1 - fixed[i]]).bits
             lead == CHOOSE n \in 0..(len - 1) :
                        g[n + 1] = 1 /\ \A i \in 1..n : g[i] = 0
             sig == SubSeq(g, lead + 1, len)
         IN  IF Len(sig) <= FloatPrecision
                THEN [zero |-> FALSE, lead |-> lead,
                      bits |-> sig \o [i \in 1..(FloatPrecision - Len(sig)) |-> 0]]
                ELSE LET head == SubSeq(sig, 1, FloatPrecision)
                         guard == sig[FloatPrecision + 1]
                         sticky == \E i \in (FloatPrecision + 2)..Len(sig) : sig[i] = 1
                         up == guard = 1 /\ (sticky \/ head[FloatPrecision] = 1)
                     IN  IF up THEN FloatNext(lead, head)
                         ELSE [zero |-> FALSE, lead |-> lead, bits |-> head]

\* two floats of [0, 1] that are equal or adjacent
WithinOneUlp(x, y) ==
    \/ x = y
    \/ (~x.zero /\ FloatNext(x.lead, x.bits) = y)
    \/ (~y.zero /\ FloatNext(y.lead, y.bits) = x)

\* response times, in whole seconds
ResponseTimes == {1, 2}

\* the model ids update_model_metrics is called with: a registered model and
\* an id that is not in the registry
MetricModelIds == {"gpt-4o", "no-such-model"}

\* _load_all_models: the metrics of a model as loaded.  average_response_time
\* is kept as the exact fraction num/den, its float rounding is not modelled.
InitialMetrics ==
    [total_requests |-> 0, successful_requests |-> 0, failed_requests |-> 0,
     average_response_time |-> [num |-> 0, den |-> 1], error_rate |-> FloatZero]

\* ModelRegistry.update_model_metrics on the entry of the model
update_model_metrics_entry(metrics, success, response_time) ==
    LET total_requests == metrics.total_requests + 1
        total_successful == metrics.successful_requests + 1
        current_avg == metrics.average_response_time
        failed_requests == metrics.failed_requests + (IF success THEN 0 ELSE 1)
    IN  [total_requests |-> total_requests,
         successful_requests |-> IF success THEN total_successful
                                 ELSE metrics.successful_requests,
         failed_requests |-> failed_requests,
         average_response_time |->
            IF success
                THEN [num |-> current_avg.num * (total_successful - 1)
                                + response_time * current_avg.den,
                      den |-> current_avg.den * total_successful]
                ELSE current_avg,
         error_rate |-> float_div(failed_requests, total_requests)]

\* AutoModel.get_available_models: "success_rate": 1.0 - error_rate
success_rate(metrics) == float_one_minus(metrics.error_rate)

NoMetricCalls ==
    [n |-> 0, k |-> 0, sum |-> 0,
     last |-> [model_id |-> None, success |-> FALSE, response_time |-> 0]]

UpdateModelMetrics(model_id, success, response_time) ==
    /\ metrics_calls.n < MaxMetricUpdates
    /\ metrics_entry' = IF model_id \in ModelIds
                            THEN update_model_metrics_entry(metrics_entry, success,
                                                            response_time)
                            ELSE metrics_entry
    /\ metrics_calls' =
            [n |-> metrics_calls.n + (IF model_id \in ModelIds THEN 1 ELSE 0),
             k |-> metrics_calls.k
                    + (IF model_id \in ModelIds /\ success THEN 1 ELSE 0),
             sum |-> metrics_calls.sum
                    + (IF model_id \in ModelIds /\ success THEN response_time ELSE 0),
             last |-> [model_id |-> model_id, success |-> success,
                       response_time |-> response_time]]
    /\ UNCHANGED outsideMetrics

MetricsInit ==
    /\ metrics_entry = InitialMetrics
    /\ metrics_calls = NoMetricCalls

NextMetrics ==
    \E model_id \in MetricModelIds, success \in BOOLEAN, response_time \in ResponseTimes :
        UpdateModelMetrics(model_id, success, response_time)

(***************************************************************************)
(*                        THE PERFORMANCE LEDGER                            *)
(***************************************************************************)

\* ---- bound of the ledger model: _track_performance calls after the start
MaxTrackCalls == 4

\* the ledger after n earlier calls, for models in turn, every other one failed
EarlierRecords(n) ==
    [i \in 1..n |->
        LET id == ModelOrder[(i % Len(ModelOrder)) + 1]
        IN  [provider |-> Models[id].provider, model_id |-> id,
             success |-> (i % 2 = 0)]]

\* the ledger is followed from the start and from two records below its limit
LedgerStarts == {0, max_performance_metrics - 2}

\* the models the tracked calls are for
TrackedModels == {"gpt-4o", "claude-3-5-sonnet-20241022"}

TrackPerformance(model_id, success) ==
    /\ \E n0 \in LedgerStarts :
            Len(arrived) >= n0 /\ Len(arrived) < n0 + MaxTrackCalls
    /\ ledger' = track_performance(ledger, Models[model_id].provider, model_id, success)
    /\ arrived' = Append(arrived, [provider |-> Models[model_id].provider,
                                   model_id |-> model_id, success |-> success])
    /\ UNCHANGED outsideLedger

LedgerInit ==
    /\ \E n0 \in LedgerStarts : ledger = EarlierRecords(n0)
    /\ arrived = ledger
    /\ proc = [c \in Callers |-> IdleProc]
    /\ last_cached = [k \in ProcKeys |-> [done |-> FALSE, time |-> 0, content |-> None]]
    /\ proc_calls = 0
    /\ active_sessions = [s \in SessionIds |-> NoSession]
    /\ session_log = NoSessionLog
    /\ with_models = IdleWithModels

LedgerParked == arrived = <<>>

NextLedger ==
    \E model_id \in TrackedModels, success \in BOOLEAN : TrackPerformance(model_id, success)

\* the process calls that carry a session id
SessionRequests ==
    {[req EXCEPT !.session_id = s] :
        s \in SessionIds, req \in {r \in ProcRequests : r.session_id # None}}

NextSessions ==
    \/ \E s \in SessionIds : CreateSession(s)
    \/ \E s \in SessionIds : DeleteSession(s)
    \/ \E c \in Callers, req \in SessionRequests : ProcStart(c, req, provider_health)
    \/ \E c \in Callers, reply \in GetReplies : ProcCacheGot(c, reply, provider_health)
    \/ \E c \in Callers, content \in Contents : ProcDriverSucceeded(c, content)
    \/ \E c \in Callers : ProcDriverFailed(c)

\* the parts of the program the specifications above do not run
LateParked ==
    /\ driver = None
    /\ prepared = None
    /\ init_calls = None
    /\ limiter = None
    /\ fingerprints = None

\* every subsystem above at rest
coreVars == <<gateVars, now, cacheVars, routerVars, processVars, metricsVars, arrived, session_log, with_models>>

CoreParked == GateInit /\ CacheParked /\ RouterParked /\ ProcParked /\ MetricsInit /\ LedgerParked

vars == <<gateVars, now, cacheVars, routerVars, processVars, metricsVars, arrived, session_log,
          with_models, lateVars>>

InitSpecSessions == GateInit /\ ProcInit /\ MetricsInit /\ LedgerParked /\ LateParked

SpecSessions == InitSpecSessions /\ [][NextSessions]_vars

InitSpecLedger == GateInit /\ CacheParked /\ RouterParked /\ MetricsInit /\ LedgerInit /\ LateParked

SpecLedger == InitSpecLedger /\ [][NextLedger]_vars

InitSpecMetrics == GateInit /\ CacheParked /\ RouterParked /\ ProcParked /\ MetricsInit /\ LedgerParked /\ LateParked

SpecMetrics == InitSpecMetrics /\ [][NextMetrics]_vars

InitSpecGate == (\E n0 \in GateHourStarts : GateInitAt(n0)) /\ CacheParked /\ RouterParked /\ ProcParked /\ MetricsInit /\ LedgerParked /\ LateParked

SpecGate == InitSpecGate /\ [][NextGate]_vars

InitSpecSelect == GateInit /\ CacheParked /\ RouterParked /\ ProcParked /\ MetricsInit /\ LedgerParked /\ LateParked

SpecSelect == InitSpecSelect /\ [][NextSelect]_vars

InitSpecCache == GateInit /\ CacheInit /\ RouterParked /\ ProcParked /\ MetricsInit /\ LedgerParked /\ LateParked

SpecCache == InitSpecCache /\ [][NextCache]_vars

InitSpecRouter == GateInit /\ CacheParked /\ RouterInit /\ ProcParked /\ MetricsInit /\ LedgerParked /\ LateParked

SpecRouter == InitSpecRouter /\ [][NextRouter]_vars

InitSpecRouterCancel == GateInit /\ CacheParked /\ RouterInit /\ ProcParked /\ MetricsInit /\ LedgerParked /\ LateParked

SpecRouterCancel == InitSpecRouterCancel /\ [][NextRouterCancel]_vars

InitSpecRouterSort == GateInit /\ CacheParked /\ RouterInit /\ ProcParked /\ MetricsInit /\ LedgerParked /\ LateParked

SpecRouterSort == InitSpecRouterSort /\ [][NextRouterSort]_vars

InitSpecProcess == GateInit /\ ProcInit /\ MetricsInit /\ LedgerParked /\ LateParked

SpecProcess == InitSpecProcess /\ [][NextProcess]_vars

InitSpecWithModels == GateInit /\ ProcInit /\ MetricsInit /\ LedgerParked /\ LateParked

SpecWithModels == InitSpecWithModels /\ [][NextWithModels]_vars

(***************************************************************************)
(*                       CLAIMS ABOUT THE COST GATE                         *)
(***************************************************************************)

GateLimits == get_tier_defaults[user_tier[gate_last.user]]

\* C1: whenever the gate admits a request of user u, the cost u was admitted
\* before plus this request's estimate is within the daily and the hourly cost
\* cap of u's tier, and the estimate is within the per-request cap.
C1_AdmissionWithinCaps ==
    gate_last.outcome = "ok" =>
        /\ gate_last.prior + gate_last.cost <= GateLimits.daily_cost_limit
        /\ gate_last.prior + gate_last.cost <= GateLimits.hourly_cost_limit
        /\ gate_last.cost <= GateLimits.max_cost_per_request

C3_TokenCapEnforced ==
    /\ (gate_last.outcome # None
            /\ gate_last.tokens > GateLimits.max_tokens_per_request)
        => gate_last.outcome = "CostLimitException"
    /\ (select_last.outcome # None
            /\ select_last.req.estimated_tokens
                 > get_tier_defaults[user_tier[select_last.user]].max_tokens_per_request)
        => select_last.outcome = "CostLimitException"

C19_UserKeysOnlyForUpperTiers ==
    (select_last.outcome # None /\ select_last.queried
        /\ select_last.req.max_cost = 0 /\ select_last.req.min_context_length = 0) =>
        select_last.security_level =
            IF select_last.req.use_user_keys
                    /\ user_tier[select_last.user] \in {"clawback", "bigchonk", "meowtrix"}
                THEN "user" ELSE "system"

(***************************************************************************)
(*                    CLAIMS ABOUT THE RESPONSE CACHE                       *)
(***************************************************************************)

\* C5: a get of key k issued later than the time of the latest set of k plus
\* that set's ttl returns a miss.
C5_ExpiredIsMiss ==
    (get_last.key # None /\ last_write[get_last.key].written
        /\ get_last.time > last_write[get_last.key].time + last_write[get_last.key].ttl)
    => get_last.value = None

(***************************************************************************)
(*                       CLAIMS ABOUT THE TASK ROUTER                       *)
(***************************************************************************)

\* C7: a model that does not support the requested task is never in the
\* candidate list the router computes, so route_task never invokes it and
\* get_model_recommendation never returns it.
C7_CandidatesSupportTask ==
    \A c \in Callers :
        route[c].computed =>
            /\ \A i \in 1..Len(route[c].candidates) :
                    route[c].task_type \in Models[route[c].candidates[i]].supported_tasks
            /\ \A j \in 1..Len(route[c].attempts) :
                    route[c].task_type \in Models[route[c].attempts[j].model].supported_tasks
            /\ route[c].result.model_id # None =>
                    route[c].task_type \in Models[route[c].result.model_id].supported_tasks

\* a candidate list was computed while a model that passes every other filter
\* does not support the task
C7_Witness ==
    \E c \in Callers, id \in ModelIds :
        /\ route[c].computed
        /\ route[c].candidates # <<>>
        /\ route[c].task_type \notin Models[id].supported_tasks
        /\ Models[id].is_available
        /\ route[c].health_seen[Models[id].provider]
        /\ Models[id].provider \notin route[c].excluded_providers
        /\ meets_requirements(id, route[c].requirements)

\* C8: a model that is unavailable, or whose provider's last health check
\* failed, or whose provider is excluded, is never in the candidate list and
\* is never invoked by route_task (its provider is healthy at the moment of
\* the invocation).
C8_UnhealthyNeverInvoked ==
    \A c \in Callers :
        route[c].computed =>
            /\ \A i \in 1..Len(route[c].candidates) :
                LET m == Models[route[c].candidates[i]]
                IN  /\ m.is_available
                    /\ route[c].health_seen[m.provider]
                    /\ m.provider \notin route[c].excluded_providers
            /\ \A j \in 1..Len(route[c].attempts) :
                LET m == Models[route[c].attempts[j].model]
                IN  /\ m.is_available
                    /\ route[c].attempts[j].healthy
                    /\ m.provider \notin route[c].excluded_providers

\* C8, as amended: a model that is unavailable, or whose provider's most recent
\* health check had failed when the candidate list was computed, or whose
\* provider is excluded, is never in the candidate list, and route_task
\* invokes only models of the list it computed.
C8_FilteredWhenComputed ==
    \A c \in Callers :
        route[c].computed =>
            /\ \A i \in 1..Len(route[c].candidates) :
                LET m == Models[route[c].candidates[i]]
                IN  /\ m.is_available
                    /\ route[c].health_seen[m.provider]
                    /\ m.provider \notin route[c].excluded_providers
            /\ \A j \in 1..Len(route[c].attempts) :
                \E i \in 1..Len(route[c].candidates) :
                    route[c].candidates[i] = route[c].attempts[j].model

\* route_task invoked a candidate of a list from which one model that supports
\* the task was left out for its provider's failed health check and another
\* for its excluded provider
C8_Witness ==
    \E c \in Callers, id1, id2 \in ModelIds :
        /\ route[c].kind = "route_task"
        /\ route[c].computed
        /\ Len(route[c].attempts) >= 1
        /\ route[c].task_type \in Models[id1].supported_tasks
        /\ meets_requirements(id1, route[c].requirements)
        /\ ~route[c].health_seen[Models[id1].provider]
        /\ Models[id1].provider \notin route[c].excluded_providers
        /\ route[c].task_type \in Models[id2].supported_tasks
        /\ meets_requirements(id2, route[c].requirements)
        /\ route[c].health_seen[Models[id2].provider]
        /\ Models[id2].provider \in route[c].excluded_providers

\* C9: route_task invokes the candidates in list order, each at most once,
\* stops at the first success and returns that response; when every candidate
\* failed it raises a failure that carries the last candidate's error.
C9_OrderedFallback ==
    \A c \in Callers :
        (route[c].kind = "route_task" /\ route[c].computed) =>
            LET r == route[c]
                n == Len(r.attempts)
            IN  /\ n <= Len(r.candidates)
                /\ \A i \in 1..n : r.attempts[i].model = r.candidates[i]
                /\ \A i, j \in 1..Len(r.candidates) :
                        i # j => r.candidates[i] # r.candidates[j]
                /\ \A i \in 1..(n - 1) : r.attempts[i].outcome = "failed"
                /\ r.pc = "processing" => (n >= 1 /\ r.attempts[n].outcome = "pending")
                /\ r.pc = "done" =>
                    \/ /\ r.candidates = <<>>
                       /\ r.result.status = "ValueError"
                    \/ /\ n >= 1
                       /\ r.attempts[n].outcome = "success"
                       /\ r.result.status = "ok"
                       /\ r.result.model_id = r.attempts[n].model
                       /\ r.result.content = r.attempts[n].payload
                    \/ /\ n >= 1
                       /\ n = Len(r.candidates)
                       /\ r.attempts[n].outcome = "failed"
                       /\ r.result.status = "Exception"
                       /\ r.result.error = r.attempts[n].payload

\* a route_task call that succeeded on a later candidate after a failure
C9_Witness ==
    \E c \in Callers :
        /\ route[c].kind = "route_task"
        /\ route[c].pc = "done"
        /\ Len(route[c].attempts) >= 2
        /\ route[c].result.status = "ok"

\* C17: at most one health check of a provider is in progress at a time,
\* under any interleaving of route_task and get_model_recommendation calls
\* (so that two health checks of a provider never start less than a minute
\* apart).
C17_OneHealthCheckPerProvider ==
    \A c1, c2 \in Callers :
        (c1 # c2 /\ route[c1].pc = "health" /\ route[c2].pc = "health") =>
            route[c1].hc_idx # route[c2].hc_idx

(***************************************************************************)
(*                    CLAIMS ABOUT THE AUTOMODEL FACADE                     *)
(***************************************************************************)

HasStep(c, step) == \E i \in 1..Len(proc[c].steps) : proc[c].steps[i] = step

\* C4: a process call that reaches a provider driver has done, in this order
\* and before the driver call, the cache lookup (when caching is on), the
\* routing step and a Cost Gate admission of the request, pinned or not.
C4_GateBeforeDriver ==
    \A c \in Callers :
        HasStep(c, "driver") =>
            /\ \E i, j, k \in 1..Len(proc[c].steps) :
                    /\ i < j /\ j < k
                    /\ proc[c].steps[i] = "route"
                    /\ proc[c].steps[j] = "gate"
                    /\ proc[c].steps[k] = "driver"
            /\ proc[c].req.use_cache =>
                    \E i, j \in 1..Len(proc[c].steps) :
                        /\ i < j
                        /\ proc[c].steps[i] = "cache_lookup"
                        /\ proc[c].steps[j] = "route"
            /\ gate_last.n >= 1
            /\ gate_last.outcome = "ok"

\* C6: a process call with caching on that starts within the TTL of a
\* successful identical call returns that call's content with cached = true
\* and invokes no driver, whatever the remote KV did in between.
C6_SecondCallServedFromCache ==
    \A c \in Callers :
        proc[c].expect # None =>
            /\ ~HasStep(c, "driver")
            /\ proc[c].pc = "done" =>
                    /\ proc[c].result.status = "ok"
                    /\ proc[c].result.cached
                    /\ proc[c].result.content = proc[c].expect

\* C10: a process call that was not served from the cache, ended in success
\* or in failure, has added exactly one ledger record, whose success flag is
\* the outcome of the call.
C10_OneLedgerRecordPerCall ==
    \A c \in Callers :
        (proc[c].pc = "done" /\ ~proc[c].result.cached) =>
            /\ Len(proc[c].tracked) = 1
            /\ proc[c].tracked[1] = (proc[c].result.status = "ok")

\* C11: a process call that passed a provider and/or a model id and failed
\* with ProviderNotAvailable, ModelNotFound or TaskNotSupported has made one
\* further pass with provider and model removed; a call that passed neither
\* surfaces the error and makes no further pass.
C11_OneFallbackPass ==
    \A c \in Callers :
        (proc[c].pc = "done" /\ proc[c].raised \in FallbackErrors) =>
            IF proc[c].req.provider # None \/ proc[c].req.model_id # None
                THEN HasStep(c, "fallback")
                ELSE /\ ~HasStep(c, "fallback")
                     /\ proc[c].result.status = proc[c].raised

\* C12: a process call whose driver failed has fallen back to the next
\* candidate and ended in success, with the failed and the succeeding attempt
\* in the ledger.
C12_DriverFailureFallsBack ==
    \A c \in Callers :
        (proc[c].pc = "done" /\ proc[c].raised = "DriverError") =>
            /\ proc[c].result.status = "ok"
            /\ proc[c].tracked = <<FALSE, TRUE>>

(***************************************************************************)
(*                  CLAIMS ABOUT THE PER-MODEL METRICS                      *)
(***************************************************************************)

\* C13: after N >= 1 update_model_metrics calls for a registered model, k of
\* them reporting success: total_requests = N, successful_requests = k,
\* failed_requests = N - k, error_rate is the float (N - k)/N, the reported
\* success rate is the float k/N to within one unit in the last place, and
\* average_response_time is the mean of the response times of the k successes.
C13_MetricsMatchHistory ==
    metrics_calls.n >= 1 =>
        LET N == metrics_calls.n
            k == metrics_calls.k
        IN  /\ metrics_entry.total_requests = N
            /\ metrics_entry.successful_requests = k
            /\ metrics_entry.failed_requests = N - k
            /\ metrics_entry.error_rate = float_div(N - k, N)
            /\ WithinOneUlp(success_rate(metrics_entry), float_div(k, N))
            /\ k >= 1 => metrics_entry.average_response_time.num * k
                            = metrics_calls.sum * metrics_entry.average_response_time.den

(***************************************************************************)
(*                  CLAIMS ABOUT THE PERFORMANCE LEDGER                     *)
(***************************************************************************)

\* C14: after any sequence of _track_performance calls the ledger has at most
\* 1000 records, and they are the most recent min(n, 1000) of the n records
\* that arrived, in arrival order.
C14_LedgerKeepsMostRecent ==
    LET n == Len(arrived)
        kept == IF n < max_performance_metrics THEN n ELSE max_performance_metrics
    IN  /\ Len(ledger) <= max_performance_metrics
        /\ ledger = SubSeq(arrived, n - kept + 1, n)

\* more than 1000 records arrived, the last two of them differ, and the ledger is full
C14_Witness ==
    /\ Len(arrived) >= max_performance_metrics + 2
    /\ arrived[Len(arrived)] # arrived[Len(arrived) - 1]
    /\ Len(ledger) = max_performance_metrics

(***************************************************************************)
(*                        CLAIMS ABOUT SESSIONS                             *)
(***************************************************************************)

C16_SessionCallsSerialized ==
    \A c1, c2 \in Callers :
        (c1 # c2 /\ proc[c1].pc = "driver" /\ proc[c2].pc = "driver"
            /\ proc[c1].req.session_id # None)
        => proc[c1].req.session_id # proc[c2].req.session_id

\* C20: a process_with_models call that compares results returns a list with
\* one result per config of model_configs, in the order of model_configs
\* (result number i belongs to config number i), after attempting every
\* config; a config whose process call fails still has its entry.
C20_OneResultPerConfig ==
    (with_models.pc = "done" /\ with_models.compare_results) =>
        /\ with_models.raised = None
        /\ proc_calls = Len(with_models.model_configs)
        /\ Len(with_models.returned) = Len(with_models.model_configs)
        /\ \A i \in 1..Len(with_models.model_configs) :
                with_models.returned[i].config_index = i - 1

\* C21: process_with_models raises its composite error (ProcessingError) only
\* when it was called with compare_results false and every config failed; a
\* comparing call never ends with an error because configs failed; a
\* first-success call that returns returns the response of the first config,
\* in the order of model_configs, whose process call succeeded.
C21_CompositeErrorOnlyFirstSuccess ==
    with_models.pc = "done" =>
        /\ with_models.raised = "ProcessingError" =>
                /\ ~with_models.compare_results
                /\ with_models.results = <<>>
                /\ Len(with_models.errors) = Len(with_models.model_configs)
        /\ with_models.compare_results => with_models.raised = None
        /\ (~with_models.compare_results /\ with_models.raised = None) =>
                /\ with_models.returned.config_index = Len(with_models.errors)
                /\ \A j \in 1..Len(with_models.errors) :
                        with_models.errors[j].config_index = j - 1

\* C22: every CacheService.set(k, v, ttl) stores k with value v in the local
\* in-process map, whether or not the remote KV is in use and whether the
\* remote write succeeds or fails: right after the set the local map holds k
\* with value v.
C22_SetAlwaysStoresLocally ==
    [][\A k \in Keys, v \in CacheValues, ttl \in TTLValues, r \in PutReplies :
            CacheSet(k, v, ttl, r) =>
                (cache_local'[k].present /\ cache_local'[k].value = v)]_vars

\* C23: when the remote KV has no live entry for k (a miss) or the GET fails,
\* CacheService.get returns the unexpired entry the local map holds for k: a
\* process call whose awaited GET ends while the remote has no live entry
\* and the local map has one for its key is served from the cache.
C23_LocalServesRemoteMiss ==
    [][\A c \in Callers :
            ( /\ proc[c].pc = "cache_get"
              /\ proc'[c].pc # "cache_get"
              /\ ~remote_live(remote_kv[proc[c].key], now)
              /\ cache_local[proc[c].key].present
              /\ cache_local[proc[c].key].expires_at > now )
            => (proc'[c].pc = "done" /\ proc'[c].result.cached)]_vars

\* C24: a remote-KV failure during a get or a set does not make the cache
\* local-only: whether get and set attempt the remote tier (_use_cloudflare)
\* is the same after every cache operation as before it, so every later
\* get/set of a cache with a configured remote tier attempts it again.
C24_RemoteRetriedAfterFailure ==
    [][use_cloudflare' = use_cloudflare]_vars

\* C25: concurrent writers of one cache key insert at most once: a live entry
\* stored under a key, in the local map or in the remote KV, is not replaced
\* by the value of another writer.
C25_AtMostOneInsertPerKey ==
    [][\A k \in ProcKeys :
            /\ (cache_local[k].present /\ cache_local[k].expires_at > now
                    /\ cache_local'[k].present)
                => cache_local'[k].value = cache_local[k].value
            /\ (remote_live(remote_kv[k], now) /\ remote_kv'[k].present)
                => remote_kv'[k].value = remote_kv[k].value]_vars

\* C26: in every ordered candidate list the router computes, the score of
\* each candidate is greater than or equal to the score of the candidate
\* that follows it.
C26_ScoresNonIncreasing ==
    \A c \in Callers :
        route[c].computed =>
            \A i \in 1..(Len(route[c].candidates) - 1) :
                candidate_score(route[c].candidates[i])
                    >= candidate_score(route[c].candidates[i + 1])

\* C27: every composite score _score_models_by_criteria computes lies in
\* [0, 100]: a select_best_model call that reaches the scoring step gets a
\* score for each candidate, and each score is between 0 and 100 points, for
\* every priority.
C27_ScoreWithinRange ==
    (select_last.outcome # None /\ select_last.scoring.reached) =>
        /\ select_last.scoring.raised = None
        /\ select_last.scoring.scores # {}
        /\ \A s \in select_last.scoring.scores : 0 <= s.score /\ s.score <= 100000

\* C28: among the requests that pass the daily cap, the per-request cap and
\* the emergency threshold, a request whose estimated cost equals the
\* remaining hourly allowance (hourly cap minus the cost already admitted in
\* the hour) is admitted, and a request one cent above it is rejected.
C28_HourlyCapBoundary ==
    ( /\ gate_last.n > 0
      /\ gate_last.prior + gate_last.cost <= GateLimits.daily_cost_limit
      /\ gate_last.cost <= GateLimits.max_cost_per_request
      /\ gate_last.cost <= emergency_cost_threshold ) =>
        /\ gate_last.prior + gate_last.cost = GateLimits.hourly_cost_limit
                => gate_last.outcome = "ok"
        /\ gate_last.prior + gate_last.cost = GateLimits.hourly_cost_limit + 1
                => gate_last.outcome = "CostLimitException"

\* C29: the emergency circuit breaker rejects a request, for every tier,
\* whenever its estimated cost exceeds 50.00 or the requests seen in the
\* current hour, this one included, exceed 10000.
C29_EmergencyBreaker ==
    ( /\ gate_last.n > 0
      /\ \/ gate_last.cost > emergency_cost_threshold
         \/ gate_last.hour_requests > emergency_requests_per_hour ) =>
        gate_last.outcome = "CostLimitException"

\* C30: when route_task is cancelled while the driver call for candidate i is
\* in flight, that attempt is the one cancelled, it is the last attempt of the
\* call (no candidate after i is tried), and route_task ends with the
\* cancellation: no response and no "all models failed" error.
C30_CancellationStopsFallback ==
    \A c \in Callers :
        LET r == route[c]
            n == Len(r.attempts)
        IN  \A i \in 1..n :
                r.attempts[i].outcome = "cancelled" =>
                    /\ i = n
                    /\ r.idx = i
                    /\ r.pc = "done"
                    /\ r.result.status = "CancelledError"
                    /\ r.result.model_id = None
                    /\ r.result.content = None

\* a call cancelled during its first attempt although a second candidate was
\* left to try
C30_Witness ==
    \E c \in Callers :
        /\ Len(route[c].attempts) = 1
        /\ route[c].attempts[1].outcome = "cancelled"
        /\ Len(route[c].candidates) > 1
        /\ route[c].pc = "done"

(***************************************************************************)
(*                          A PROVIDER DRIVER                               *)
(***************************************************************************)

\* ---- bound of the driver model
MaxDriverCalls == 5

HttpReplies == {"ok", "error"}

NoDriverCall == [op |-> None, was_initialized |-> FALSE, was_shut_down |-> FALSE, http |-> FALSE, outcome |-> None]

\* BaseProvider.__init__ and OpenAIProvider.__init__ / AnthropicProvider.__init__:
\* no client, not initialized; shut_down records that __aexit__ was called
DriverInit ==
    /\ driver \in { [api_key |-> k, is_initialized |-> FALSE, client |-> "none",
                     models_loaded |-> FALSE, shut_down |-> FALSE, http_calls |-> 0,
                     calls |-> 0, last |-> NoDriverCall] : k \in BOOLEAN }

\* OpenAIProvider.initialize / AnthropicProvider.initialize; "raised" is the
\* exception it ends with, None when it returns
driver_initialize(d) ==
    IF d.is_initialized THEN [d |-> d, raised |-> None]
    ELSE IF ~d.api_key THEN [d |-> d, raised |-> "ValueError"]
    ELSE [d |-> [d EXCEPT !.client = "open", !.models_loaded = TRUE, !.is_initialized = TRUE],
          raised |-> None]

\* OpenAIProvider.process / AnthropicProvider.process for a model of the driver
\* and a task it supports: initialize when not initialized, then the POST on
\* self._client; a closed httpx client raises RuntimeError without sending
driver_process(d, reply) ==
    LET seen == [op |-> "process", was_initialized |-> d.is_initialized,
                 was_shut_down |-> d.shut_down, http |-> FALSE, outcome |-> None]
        i == driver_initialize(d)
        d1 == i.d
    IN  IF i.raised # None
            THEN [d1 EXCEPT !.calls = @ + 1, !.last = [seen EXCEPT !.outcome = i.raised]]
        ELSE IF d1.client # "open"
            THEN [d1 EXCEPT !.calls = @ + 1, !.last = [seen EXCEPT !.outcome = "RuntimeError"]]
        ELSE [d1 EXCEPT !.calls = @ + 1, !.http_calls = @ + 1,
                        !.last = [seen EXCEPT !.http = TRUE,
                                     !.outcome = IF reply = "ok" THEN "ok" ELSE "HTTPError"]]

DriverInitialize ==
    /\ driver.calls < MaxDriverCalls
    /\ LET i == driver_initialize(driver)
       IN  driver' = [i.d EXCEPT !.calls = @ + 1,
                         !.last = [NoDriverCall EXCEPT !.op = "initialize",
                                      !.was_initialized = driver.is_initialized,
                                      !.was_shut_down = driver.shut_down,
                                      !.outcome = IF i.raised = None THEN "ok" ELSE i.raised]]
    /\ UNCHANGED <<coreVars, prepared, init_calls, limiter, fingerprints>>

DriverProcess(reply) ==
    /\ driver.calls < MaxDriverCalls
    /\ driver' = driver_process(driver, reply)
    /\ UNCHANGED <<coreVars, prepared, init_calls, limiter, fingerprints>>

\* ModelRegistry.shutdown for this driver: provider.__aexit__ closes the client
\* when there is one and leaves _is_initialized as it is
DriverShutdown ==
    /\ driver.calls < MaxDriverCalls
    /\ driver' = [driver EXCEPT !.calls = @ + 1, !.shut_down = TRUE,
                     !.client = IF @ = "none" THEN "none" ELSE "closed",
                     !.last = [NoDriverCall EXCEPT !.op = "shutdown",
                                  !.was_initialized = driver.is_initialized,
                                  !.was_shut_down = driver.shut_down,
                                  !.outcome = "ok"]]
    /\ UNCHANGED <<coreVars, prepared, init_calls, limiter, fingerprints>>

NextDriver ==
    \/ DriverInitialize
    \/ \E reply \in HttpReplies : DriverProcess(reply)
    \/ DriverShutdown

InitSpecDriver == CoreParked /\ DriverInit /\ prepared = None /\ init_calls = None /\ limiter = None /\ fingerprints = None

SpecDriver == InitSpecDriver /\ [][NextDriver]_vars

\* C31: process on a driver that was not initialized, or that was shut down,
\* is refused and performs no HTTP call.
C31_ProcessOnlyWhenReady ==
    (driver.last.op = "process" /\ (~driver.last.was_initialized \/ driver.last.was_shut_down)) =>
        (~driver.last.http /\ driver.last.outcome # "ok")

MaxSessionMessages == 2
MaxContentMessages == 2

\* a message content is a sequence of pieces, so that "+=" is concatenation;
\* Separator is the "\n\n" the merge puts between two contents
Separator == "\n\n"
NeutralText == <<"Please help me with the following:">>
Roles == {"system", "user", "assistant"}
Texts == {<<"a">>, <<"b">>}
MessageSet == [role : Roles, content : Texts]

SeqsUpTo(S, n) == UNION {[1..k -> S] : k \in 0..n}

\* the content argument: a string, or a dict with a "messages" list
ContentInputs ==
    { [kind |-> "str", text |-> <<"c">>, messages |-> <<>>] }
    \cup { [kind |-> "messages", text |-> <<>>, messages |-> ms] :
            ms \in SeqsUpTo(MessageSet, MaxContentMessages) \ {<<>>} }

\* the body of the merge loop without the merge: every message is appended
merge_step_appending(st, m) ==
    [st EXCEPT !.cleaned = Append(@, m), !.last_role = st.heap[m].role]

\* the body of the loop "for msg in messages" of _prepare_messages; heap holds
\* the dict objects, cleaned the objects in cleaned_messages (by position in
\* heap): a merge writes into the object cleaned_messages[-1] refers to
merge_step(st, m) ==
    IF st.heap[m].role = st.last_role
        THEN IF st.cleaned # <<>>
                THEN [st EXCEPT !.heap[st.cleaned[Len(st.cleaned)]].content =
                                    @ \o <<Separator>> \o st.heap[m].content]
                ELSE [st EXCEPT !.cleaned = Append(@, m)]
        ELSE [st EXCEPT !.cleaned = Append(@, m), !.last_role = st.heap[m].role]

RECURSIVE merge_loop(_, _)
merge_loop(st, ids) ==
    IF ids = <<>> THEN st ELSE merge_loop(merge_step(st, Head(ids)), Tail(ids))

\* AnthropicProvider._prepare_messages for a session context whose "messages"
\* list is session (empty when the context has none) and a content argument:
\* the list it returns, and what the two input lists hold afterwards
prepare_messages(session, content) ==
    LET n1 == Len(session)
        n2 == Len(content.messages)
        heap0 == session \o content.messages \o
                 (IF content.kind = "str"
                     THEN <<[role |-> "user", content |-> content.text]>> ELSE <<>>)
        ids0 == SelectSeq([i \in 1..Len(heap0) |-> i], LAMBDA i : heap0[i].role # "system")
        st == merge_loop([heap |-> heap0, cleaned |-> <<>>, last_role |-> None], ids0)
        out == [i \in 1..Len(st.cleaned) |-> st.heap[st.cleaned[i]]]
    IN  [messages |-> IF out # <<>> /\ out[1].role # "user"
                          THEN <<[role |-> "user", content |-> NeutralText]>> \o out
                          ELSE out,
         session |-> SubSeq(st.heap, 1, n1),
         content_messages |-> SubSeq(st.heap, n1 + 1, n1 + n2)]

NoPrepare == [session_before |-> <<>>, content_before |-> <<>>, text |-> <<>>, content_after |-> <<>>, messages |-> <<>>]

\* a session context with a history of messages, before the first call
PrepareInit ==
    /\ prepared \in { [session |-> s, called |-> FALSE, last |-> NoPrepare] :
                        s \in SeqsUpTo(MessageSet, MaxSessionMessages) }

\* one process call of the Anthropic driver on the session: _process_message
\* calls _prepare_messages with the stored context and the request's content
PrepareMessages(content) ==
    /\ ~prepared.called
    /\ LET p == prepare_messages(prepared.session, content)
       IN  prepared' = [session |-> p.session, called |-> TRUE,
                        last |-> [session_before |-> prepared.session,
                                  content_before |-> content.messages,
                                  text |-> content.text,
                                  content_after |-> p.content_messages,
                                  messages |-> p.messages]]
    /\ UNCHANGED <<coreVars, driver, init_calls, limiter, fingerprints>>

NextPrepare == \E content \in ContentInputs : PrepareMessages(content)

InitSpecPrepare == CoreParked /\ PrepareInit /\ driver = None /\ init_calls = None /\ limiter = None /\ fingerprints = None

SpecPrepare == InitSpecPrepare /\ [][NextPrepare]_vars

\* the pieces of all contents of a message list, in order, without separators
RECURSIVE Pieces(_)
Pieces(ms) ==
    IF ms = <<>> THEN <<>>
    ELSE SelectSeq(Head(ms).content, LAMBDA x : x # Separator) \o Pieces(Tail(ms))

\* C33: the list the Anthropic driver sends has no system message and no two
\* adjacent messages of one role; when it is not empty it starts with a user
\* message; the neutral message is prepended exactly when the first message
\* that is left is not from the user; and the contents are those of the
\* non-system input messages, merged in their order.
C33_AlternatingMessages ==
    prepared.called =>
        LET out == prepared.last.messages
            given == prepared.last.session_before \o prepared.last.content_before \o
                     (IF prepared.last.text # <<>>
                         THEN <<[role |-> "user", content |-> prepared.last.text]>> ELSE <<>>)
            inputs == SelectSeq(given, LAMBDA m : m.role # "system")
            body == IF out # <<>> /\ out[1].content = NeutralText THEN Tail(out) ELSE out
        IN  /\ \A i \in 1..Len(out) : out[i].role \in {"user", "assistant"}
            /\ \A i \in 1..(Len(out) - 1) : out[i].role # out[i + 1].role
            /\ out # <<>> => out[1].role = "user"
            /\ (out # <<>> /\ out[1].content = NeutralText)
                   <=> (inputs # <<>> /\ inputs[1].role # "user")
            /\ Pieces(body) = Pieces(inputs)

\* a call that merged two messages of one role and prepended the neutral message
C33_Witness ==
    /\ prepared.called
    /\ Len(prepared.last.messages) = 2
    /\ prepared.last.messages[1].content = NeutralText
    /\ prepared.last.messages[2].role = "assistant"
    /\ \E i \in 1..Len(prepared.last.messages[2].content) :
            prepared.last.messages[2].content[i] = Separator

\* C40: _prepare_messages leaves its inputs unchanged: the messages of the
\* session context and of the request content have the same role and content
\* after the call as before.
C40_InputsUnchanged ==
    prepared.called =>
        /\ prepared.session = prepared.last.session_before
        /\ prepared.last.content_after = prepared.last.content_before

\* C34: when a routing call has finished its health_check_if_needed and
\* computes its candidates, every provider has a health check that is not
\* older than the interval, counted from the call's start (a provider whose
\* interval had elapsed was checked again), and the suitable models of every
\* provider whose latest check succeeded are candidates: a provider that
\* failed a check is a candidate again after the next check that succeeds.
C34_RecheckedAfterInterval ==
    [][\A c \in Callers :
        (/\ route[c].pc \in {"idle", "done", "health"}
         /\ route'[c] # route[c]
         /\ route'[c].pc # "health"
         /\ route'[c].computed) =>
            LET r == route'[c]
                started == IF route[c].pc = "health" THEN route[c].hc_now ELSE now
                cands == {r.candidates[i] : i \in 1..Len(r.candidates)}
            IN  /\ \A p \in Providers :
                    /\ last_health_check'[p] # NoCheck
                    /\ started - last_health_check'[p] <= health_check_interval
                /\ \A id \in ModelIds :
                    (/\ r.task_type \in Models[id].supported_tasks
                     /\ Models[id].is_available
                     /\ Models[id].provider \notin r.excluded_providers
                     /\ meets_requirements(id, r.requirements)
                     /\ provider_health'[Models[id].provider]) => id \in cands]_vars

\* one call saw a provider unhealthy and left its models out; the provider
\* was checked again after the interval, is healthy, and another call has
\* its model among the candidates
C34_Witness ==
    \E c1, c2 \in Callers, id \in ModelIds :
        LET p == Models[id].provider
        IN  /\ route[c1].computed /\ ~route[c1].health_seen[p]
            /\ route[c1].task_type \in Models[id].supported_tasks
            /\ \A i \in 1..Len(route[c1].candidates) : route[c1].candidates[i] # id
            /\ last_health_check[p] > health_check_interval
            /\ provider_health[p]
            /\ route[c2].computed /\ route[c2].health_seen[p]
            /\ \E i \in 1..Len(route[c2].candidates) : route[c2].candidates[i] = id

\* the total of _load_balancing (get_routing_stats: total_requests)
total_load(lb) == lb[ProviderOrder[1]] + lb[ProviderOrder[2]] + lb[ProviderOrder[3]]

FingerprintRequests ==
    [task_type : {"text_generation", "embedding"}, content : {<<"a">>, <<"b">>},
     provider : {None, "openai"}, model_id : {None, "gpt-4o"},
     max_tokens : {None, "0", "100"}, temperature : {None, "0.0", "0.7"},
     template_id : {None, "t1"}, cache_key : {None}]

\* two requests about to be looked up
FingerprintInit ==
    /\ fingerprints \in { [first |-> r1, second |-> r2, first_key |-> <<>>,
                           second_key |-> <<>>, done |-> FALSE] :
                            r1 \in FingerprintRequests, r2 \in FingerprintRequests }

\* _try_cache of the two requests, up to the lookup: the keys they build
BuildKeys ==
    /\ ~fingerprints.done
    /\ fingerprints' = [fingerprints EXCEPT !.first_key = cache_key(fingerprints.first),
                                           !.second_key = cache_key(fingerprints.second),
                                           !.done = TRUE]
    /\ UNCHANGED <<coreVars, driver, prepared, init_calls, limiter>>

NextFingerprint == BuildKeys

InitSpecFingerprint == CoreParked /\ FingerprintInit /\ driver = None /\ prepared = None /\ init_calls = None /\ limiter = None

SpecFingerprint == InitSpecFingerprint /\ [][NextFingerprint]_vars

\* C36: two requests that differ in a fingerprint field (task kind, content,
\* pinned provider, pinned model, max tokens, temperature, template id) get
\* different cache keys.
C36_DistinctKeys ==
    (fingerprints.done /\ fingerprints.first # fingerprints.second) =>
        fingerprints.first_key # fingerprints.second_key

(***************************************************************************)
(*                        AutoModel.initialize                              *)
(***************************************************************************)

\* ---- bound of the initialization model
MaxInitCalls == 4

InitCallers == {"a", "b", "c"}

NoRegistry == 0

\* the class attributes before the first initialize; configured says whether
\* any provider has an API key: only then does ModelRegistry.initialize
\* suspend (in the HTTP call of a provider's first health check)
AutoModelInit ==
    /\ init_calls \in { [configured |-> k, initialized |-> FALSE,
                         model_registry |-> NoRegistry, task_router |-> NoRegistry,
                         built |-> 0, ready |-> {}, calls |-> 0,
                         call |-> [c \in InitCallers |->
                                    [pc |-> "idle", mine |-> NoRegistry, uses |-> NoRegistry]]] :
                            k \in BOOLEAN }

\* AutoModel.initialize after "await cls._model_registry.initialize()" of the
\* registry the call built: the router is built on whatever
\* cls._model_registry holds now, and _initialized is set
finish_initialize(s, c, mine) ==
    [s EXCEPT !.ready = @ \cup {mine},
              !.task_router = s.model_registry,
              !.initialized = TRUE,
              !.call[c] = [pc |-> "done", mine |-> mine, uses |-> s.model_registry]]

\* ensure_initialized called by c (AutoModel.process starts with it): return
\* when _initialized, else the body of initialize up to its await
EnsureInitialized(c) ==
    /\ init_calls.call[c].pc \in {"idle", "done"}
    /\ init_calls.calls < MaxInitCalls
    /\ LET s == [init_calls EXCEPT !.calls = @ + 1]
           mine == s.built + 1
           s1 == [s EXCEPT !.built = mine, !.model_registry = mine,
                           !.call[c] = [pc |-> "initializing", mine |-> mine, uses |-> NoRegistry]]
       IN  init_calls' =
            IF s.initialized
                THEN [s EXCEPT !.call[c] = [pc |-> "done", mine |-> NoRegistry,
                                            uses |-> s.model_registry]]
            ELSE IF s.configured THEN s1
            ELSE finish_initialize(s1, c, mine)
    /\ UNCHANGED <<coreVars, driver, prepared, limiter, fingerprints>>

\* the awaited ModelRegistry.initialize of c's registry returns
RegistryInitialized(c) ==
    /\ init_calls.call[c].pc = "initializing"
    /\ init_calls' = finish_initialize(init_calls, c, init_calls.call[c].mine)
    /\ UNCHANGED <<coreVars, driver, prepared, limiter, fingerprints>>

NextInitialize ==
    \/ \E c \in InitCallers : EnsureInitialized(c)
    \/ \E c \in InitCallers : RegistryInitialized(c)

InitSpecInitialize == CoreParked /\ AutoModelInit /\ driver = None /\ prepared = None /\ limiter = None /\ fingerprints = None

SpecInitialize == InitSpecInitialize /\ [][NextInitialize]_vars

\* C37: the body of AutoModel.initialize runs once: at most one ModelRegistry
\* is built, and every call that returned from ensure_initialized proceeds
\* with that registry, initialized.
C37_InitializeOnce ==
    /\ init_calls.built <= 1
    /\ \A c \in InitCallers :
        init_calls.call[c].pc = "done" =>
            (init_calls.call[c].uses = 1 /\ 1 \in init_calls.ready)

\* C38: a cache entry is written only by the step of a process call that
\* caches, whose driver call returned and which returns its response, under
\* that call's key and with that call's response; a call that ends with an
\* error has made no cache write; a call with use_cache = FALSE makes no cache
\* lookup and no cache write, and its steps leave both cache tiers as they are.
\* No step removes an entry that has not expired.
C38_CacheWriteOnlyAfterSuccess ==
    [][/\ \A k \in ProcKeys :
            /\ (cache_local[k].present /\ ~cache_local'[k].present) =>
                    cache_local[k].expires_at <= now
            /\ remote_kv[k].present => remote_kv'[k].present
       /\ \A k \in ProcKeys :
            (\/ cache_local'[k].present /\ cache_local'[k] # cache_local[k]
             \/ remote_kv'[k].present /\ remote_kv'[k] # remote_kv[k]) =>
                \E c \in Callers :
                    /\ proc[c].pc \in {"driver", "cache_put"}
                    /\ proc'[c].pc = "done"
                    /\ proc'[c].result.status = "ok"
                    /\ ~proc'[c].result.cached
                    /\ proc'[c].req.use_cache
                    /\ proc'[c].key = k
                    /\ \E i \in 1..Len(proc'[c].steps) : proc'[c].steps[i] = "driver"
                    /\ LET data == response_json([content |-> proc'[c].content,
                                                  model_id |-> proc'[c].model_id])
                       IN  /\ cache_local'[k] # cache_local[k] => cache_local'[k].value = data
                           /\ remote_kv'[k] # remote_kv[k] => remote_kv'[k].value = data
       /\ \A c \in Callers :
            (proc'[c].pc = "done" /\ proc'[c].result.status # "ok") =>
                \A i \in 1..Len(proc'[c].steps) : proc'[c].steps[i] # "cache_write"
       /\ \A c \in Callers :
            (proc'[c].pc # "idle" /\ ~proc'[c].req.use_cache) =>
                /\ \A i \in 1..Len(proc'[c].steps) :
                        proc'[c].steps[i] \notin {"cache_lookup", "cache_write"}
                /\ (proc'[c].pc # proc[c].pc \/ proc'[c].steps # proc[c].steps) =>
                        (/\ cache_local' = cache_local
                         /\ remote_kv' = remote_kv
                         /\ use_cloudflare' = use_cloudflare)]_vars

\* a caching call whose driver failed has ended with an error and without a
\* cache write, and another call's response is cached under its key
C38_Witness ==
    \E c1, c2 \in Callers :
        /\ proc[c1].pc = "done" /\ proc[c1].result.status = "DriverError"
        /\ proc[c1].req.use_cache
        /\ proc[c2].pc = "done" /\ proc[c2].result.status = "ok"
        /\ ~proc[c2].result.cached
        /\ \E i \in 1..Len(proc[c2].steps) : proc[c2].steps[i] = "cache_write"
        /\ cache_local[proc[c2].key].present \/ remote_kv[proc[c2].key].present
        /\ proc[c1].key # proc[c2].key
        /\ ~cache_local[proc[c1].key].present /\ ~remote_kv[proc[c1].key].present

\* ---------------------------------------------------------------------------
\* The in-memory rate limiter (core/rate_limiter.py) behind apply_rate_limit
\* ---------------------------------------------------------------------------

MaxLimit == 2
MaxWindow == 2
MaxLimiterTime == 8
MaxLimiterCalls == 5

LimiterUsers == {"u1", "u2"}

\* the clock time.time() at the first call: far more than one window after 0.0
LimiterStart == MaxWindow + 1

LimiterTimes == 0..MaxLimiterTime

\* rate_limit_storage with its default (0.0, 0) for every user, the limit and
\* window that apply_rate_limit passes on every call, and the record of the
\* admitted requests: admitted[u][t] is the number admitted at time t
LimiterInit ==
    \E l \in 1..MaxLimit, w \in 1..MaxWindow :
        limiter = [limit |-> l, window |-> w, clock |-> LimiterStart, calls |-> 0,
                   rate_limit_storage |->
                        [u \in LimiterUsers |-> [last_time |-> 0, count |-> 0]],
                   admitted |-> [u \in LimiterUsers |-> [t \in LimiterTimes |-> 0]],
                   last |-> [user |-> None, admitted |-> FALSE]]

\* rate_limiter proper: the stored pair after the call, and whether it raised
\* HTTP 429
rate_limiter(stored, current_time, limit, window) ==
    IF current_time - stored.last_time > window
        THEN [stored |-> [last_time |-> current_time, count |-> 1], raised |-> FALSE]
    ELSE IF stored.count >= limit
        THEN [stored |-> stored, raised |-> TRUE]
    ELSE [stored |-> [stored EXCEPT !.count = @ + 1], raised |-> FALSE]

\* apply_rate_limit for a request of user u
ApplyRateLimit(u) ==
    /\ limiter.calls < MaxLimiterCalls
    /\ LET r == rate_limiter(limiter.rate_limit_storage[u], limiter.clock,
                             limiter.limit, limiter.window)
       IN  limiter' = [limiter EXCEPT
                !.calls = @ + 1,
                !.rate_limit_storage[u] = r.stored,
                !.admitted[u][limiter.clock] = IF r.raised THEN @ ELSE @ + 1,
                !.last = [user |-> u, admitted |-> ~r.raised]]
    /\ UNCHANGED <<coreVars, driver, prepared, init_calls, fingerprints>>

\* time passes between two requests
LimiterTick ==
    /\ limiter.clock < MaxLimiterTime
    /\ limiter' = [limiter EXCEPT !.clock = @ + 1]
    /\ UNCHANGED <<coreVars, driver, prepared, init_calls, fingerprints>>

NextLimiter ==
    \/ \E u \in LimiterUsers : ApplyRateLimit(u)
    \/ LimiterTick

InitSpecLimiter == CoreParked /\ LimiterInit /\ driver = None /\ prepared = None /\ init_calls = None /\ fingerprints = None

SpecLimiter == InitSpecLimiter /\ [][NextLimiter]_vars

RECURSIVE AdmittedIn(_, _, _)
\* the number of requests of u admitted at the times t0 <= t < t1
AdmittedIn(u, t0, t1) ==
    IF t0 >= t1 \/ t0 > MaxLimiterTime THEN 0
    ELSE limiter.admitted[u][t0] + AdmittedIn(u, t0 + 1, t1)

\* C39: in every span of `window` seconds (t0 <= t < t0 + window) the limiter
\* has admitted at most `limit` requests of each user.
C39_AtMostLimitPerSpan ==
    \A u \in LimiterUsers : \A t0 \in LimiterTimes :
        AdmittedIn(u, t0, t0 + limiter.window) <= limiter.limit

\* C39, second part: the stored count of a user never exceeds the limit.
C39_CountWithinLimit ==
    \A u \in LimiterUsers : limiter.rate_limit_storage[u].count <= limiter.limit

\* C39, third part: a rejected request leaves the stored window start and count
\* of every user unchanged.
C39_RejectionChangesNothing ==
    [][(limiter'.calls = limiter.calls + 1 /\ ~limiter'.last.admitted) =>
            limiter'.rate_limit_storage = limiter.rate_limit_storage]_vars

\* a request was rejected
C39_Rejected ==
    limiter.calls > 0 /\ ~limiter.last.admitted

====
